---- MODULE Spec2Model ----
(***************************************************************************)
(* session-siphon: the collector's incremental sync engine                 *)
(* (collector/copier.py, collector/daemon.py, collector/state.py) and the  *)
(* processor's parsers (processor/parsers/*.py), and the two daemons'       *)
(* cycles and main loops (collector/daemon.py, processor/daemon.py).       *)
(*                                                                         *)
(* A file is a record [exists, bytes]; bytes is a sequence over ByteVals.  *)
(* The collector state row of the one tracked (source, path) is a record   *)
(* [known, size, sha256, last_offset]; mtime and last_synced are clock     *)
(* readings that no decision of the code depends on and are left out.      *)
(***************************************************************************)
EXTENDS Integers, Sequences, FiniteSets, TLC

\* ------------------------------------------------------------------ bounds
MaxLen == 3
ByteVals == {1, 2}

BoundedSeq(S, n) == UNION {[1..k -> S] : k \in 0..n}

Contents == BoundedSeq(ByteVals, MaxLen)

\* ------------------------------------------------------------------ state
VARIABLES
    suffix,       \* source_path.suffix, fixed for the life of the path
    src,          \* the source file on disk
    dst,          \* the outbox destination file
    file_state,   \* the row of CollectorState for (source, path)
    ret,          \* what the last sync_file call returned and why
    prevRet,      \* what the sync_file call right before it returned, when
                  \* nothing touched the source in between (history)
    lastOp,       \* the last operation that ran (history)
    appendOnly,   \* TRUE while the source has only ever been appended to
    copy_from,    \* from_offset of the last direct copy_jsonl_incremental call
    copy_ret,     \* its return value
    parser,       \* source name of the line-delimited parser under study
    pfile,        \* the inbox transcript: a sequence of [body, nl] elements
    proc_offset,  \* last_offset of the processor state row of the file
    parse_res,    \* result of the last parse call
    first_res,    \* result of the first parse call (history)
    appended,     \* elements appended since the last parse call (history)
    nparse,       \* number of parse calls made
    wparser,      \* source name of the whole-file parser under study
    wfile,        \* the session file (with its message files) on disk
    wres,         \* result of the last whole-file parse call
    wprev,        \* result of the call before it, when the file was not
                  \* rewritten in between (history)
    windex,       \* ids of the message documents in the index
    nwrites,      \* number of rewrites of the session file
    pc,           \* where the daemon's main loop stands: "connect", "loop",
                  \* "begin", "cycle", "after", "sleep", "stopped"
    shutdown_requested,  \* the daemon's _shutdown_requested flag
    interval,     \* the inter-cycle interval, in half seconds
    sleep_remaining,     \* sleep_remaining of the sleep loop, in half seconds
    ncycles,      \* number of cycles started
    files,        \* the discovered files the cycle's loop has not reached yet
    discovered,   \* the files the running cycle discovered (history)
    handled,      \* the files the running cycle has handled (history)
    attempt,      \* connection attempts made by run_processor
    indexer,      \* "up" (a TypesenseIndexer) or "None"
    inbox,        \* the files of the inbox, by path
    archive,      \* the files of the archive: [date, path, file] entries
    processed_files,     \* the rows of ProcessorState, by path
    ts_messages,  \* ids of the documents of the messages collection
    ts_conversations,    \* the documents of the conversations collection
    now,          \* the clock
    totals,       \* totals of the running processor cycle
    pf,           \* the last process_file call: its inputs and results
    seen,         \* by path, the last parse of the file now at that path
                  \* (history)
    ndeliver,     \* number of deliveries to the inbox
    sources,      \* the collector's source files, by path
    outbox,       \* their outbox copies, by path
    collector_state,     \* the rows of CollectorState, by path
    synced_count, \* synced_count of the running collector cycle
    sync_out,     \* how sync_file ended for each handled file: "true",
                  \* "false" or "raise" (history)
    nsrcwrites,   \* number of writes to the source files
    batch,        \* the messages given to _update_conversation_from_messages
    upserted,     \* the conversations it gave to update_conversation
    ids           \* for each message of the batch, its id property and what
                  \* generate_message_id returns for its fields

collectorVars == <<suffix, src, dst, file_state, ret, prevRet, lastOp, appendOnly>>
collectorVars2 == <<suffix, src, dst, file_state, ret, prevRet, appendOnly>>
copyVars == <<copy_from, copy_ret>>
parseVars == <<parser, pfile, proc_offset, parse_res, first_res, appended, nparse>>
wholeVars == <<wparser, wfile, wres, wprev, windex, nwrites>>
loopVars == <<pc, shutdown_requested, interval, sleep_remaining, ncycles, files,
              discovered, handled>>
procVars == <<attempt, indexer, inbox, archive, processed_files, ts_messages,
              ts_conversations, now, totals, pf, seen, ndeliver>>
cycVars == <<sources, outbox, collector_state, synced_count, sync_out, nsrcwrites>>
convVars == <<batch, upserted, ids>>
daemonVars == <<loopVars, procVars, cycVars, convVars>>

NoFile == [exists |-> FALSE, bytes |-> <<>>]
File(b) == [exists |-> TRUE, bytes |-> b]

\* FileState: None is the row with known = FALSE
NoState == [known |-> FALSE, size |-> 0, sha256 |-> <<>>, last_offset |-> 0]

NoRet == [synced |-> FALSE, reason |-> "none", hash |-> <<>>]

Suffixes == {".jsonl", ".JSONL", ".json"}

\* str.lower() on the suffixes of the model
Lower(s) == IF s = ".JSONL" THEN ".jsonl" ELSE s

is_jsonl == Lower(suffix) = ".jsonl"

\* ------------------------------------------------------------ copier.py
\* SHA-256 as an ideal (collision-free) hash: the digest of b is a tagged
\* copy of b, so that it differs from "" (the empty sequence) for every file.
compute_sha256(b) == <<Len(b)>> \o b

\* bytes [from, end) of b, 0-based from
BytesFrom(b, from) == SubSeq(b, from + 1, Len(b))

\* the copy re-reads the source from its start instead of from from_offset
copy_jsonl_incremental_from_start(source, dest, from_offset) ==
    LET file_size == Len(source.bytes)
    IN  IF file_size <= from_offset
        THEN [dest |-> dest, ret |-> from_offset]
        ELSE [dest |-> File(dest.bytes \o source.bytes), ret |-> file_size]

\* the copy returns the number of bytes copied instead of the end position
copy_jsonl_incremental_bytes_copied(source, dest, from_offset) ==
    LET file_size == Len(source.bytes)
    IN  IF file_size <= from_offset
        THEN [dest |-> dest, ret |-> from_offset]
        ELSE [dest |-> File(dest.bytes \o BytesFrom(source.bytes, from_offset)),
              ret  |-> file_size - from_offset]

copy_jsonl_incremental(source, dest, from_offset) ==
    LET file_size == Len(source.bytes)
    IN  IF file_size <= from_offset
        THEN [dest |-> dest, ret |-> from_offset]
        ELSE [dest |-> File(dest.bytes \o BytesFrom(source.bytes, from_offset)),
              ret  |-> file_size]

\* the snapshot is appended to what the destination holds
copy_json_snapshot_append(source, dest) == File(dest.bytes \o source.bytes)

copy_json_snapshot(source, dest) == File(source.bytes)

\* the hash is compared before the sizes
needs_sync_hash_first(source, state) ==
    IF ~source.exists
    THEN [needs |-> FALSE, reason |-> "file_not_found", hash |-> <<>>]
    ELSE
    LET current_size == Len(source.bytes)
        current_hash == compute_sha256(source.bytes)
    IN  IF ~state.known
        THEN [needs |-> TRUE, reason |-> "new_file", hash |-> current_hash]
        ELSE IF current_hash # state.sha256
        THEN [needs |-> TRUE,
              reason |-> IF is_jsonl THEN "content_changed" ELSE "hash_changed",
              hash |-> current_hash]
        ELSE [needs |-> FALSE, reason |-> "up_to_date", hash |-> current_hash]

needs_sync(source, state) ==
    IF ~source.exists
    THEN [needs |-> FALSE, reason |-> "file_not_found", hash |-> <<>>]
    ELSE
    LET current_size == Len(source.bytes)
        current_hash == compute_sha256(source.bytes)
    IN  IF ~state.known
        THEN [needs |-> TRUE, reason |-> "new_file", hash |-> current_hash]
        ELSE IF is_jsonl
        THEN IF current_size > state.last_offset
             THEN [needs |-> TRUE, reason |-> "new_bytes", hash |-> current_hash]
             ELSE IF current_size < state.last_offset
             THEN [needs |-> TRUE, reason |-> "file_reset", hash |-> current_hash]
             ELSE IF current_hash # state.sha256
             THEN [needs |-> TRUE, reason |-> "content_changed", hash |-> current_hash]
             ELSE [needs |-> FALSE, reason |-> "up_to_date", hash |-> current_hash]
        ELSE IF current_hash # state.sha256
             THEN [needs |-> TRUE, reason |-> "hash_changed", hash |-> current_hash]
             ELSE [needs |-> FALSE, reason |-> "up_to_date", hash |-> current_hash]

\* ------------------------------------------------------------ state.py
\* the row is written without the hash
update_file_state_no_hash(size, sha256, last_offset) ==
    [known |-> TRUE, size |-> size, sha256 |-> <<>>, last_offset |-> last_offset]

update_file_state(size, sha256, last_offset) ==
    [known |-> TRUE, size |-> size, sha256 |-> sha256, last_offset |-> last_offset]

\* ------------------------------------------------------------ daemon.py
\* an in-place rewrite is not treated as a restart
FreshReasons_no_content_changed == {"file_reset", "new_file"}

\* a truncation is not treated as a restart
FreshReasons_no_file_reset == {"content_changed", "new_file"}

FreshReasons == {"file_reset", "content_changed", "new_file"}

\* sync_file(source, source_path, state, machine_id, outbox_path) on one
\* file: what it returns ("true", "false") or that it raises, and the
\* destination and the state row it leaves. fault is what the file system
\* refuses during the call: "read" (the source cannot be opened), "write"
\* (the destination cannot be written), or "none".
sync_file(source, dest, state, fault) ==
    LET d == needs_sync(source, state)
        current_size == Len(source.bytes)
        Raised(dest1) == [out |-> "raise", reason |-> d.reason, hash |-> d.hash,
                          dest |-> dest1, state |-> state]
    IN  IF source.exists /\ fault = "read" THEN Raised(dest)
        ELSE IF ~d.needs
        THEN [out |-> "false", reason |-> d.reason, hash |-> d.hash,
              dest |-> dest, state |-> state]
        ELSE IF is_jsonl
        THEN LET fresh == d.reason \in FreshReasons
                 dest0 == IF fresh THEN NoFile ELSE dest
                 from_offset == IF fresh THEN 0 ELSE state.last_offset
                 c == copy_jsonl_incremental(source, dest0, from_offset)
             IN  IF fault = "write" /\ current_size > from_offset THEN Raised(dest0)
                 ELSE [out |-> "true", reason |-> d.reason, hash |-> d.hash,
                       dest |-> c.dest,
                       state |-> update_file_state(current_size, d.hash, c.ret)]
        ELSE IF fault = "write" THEN Raised(dest)
        ELSE [out |-> "true", reason |-> d.reason, hash |-> d.hash,
              dest |-> copy_json_snapshot(source, dest),
              state |-> update_file_state(current_size, d.hash, current_size)]

\* sync_file on the tracked file
SyncFile ==
    LET r == sync_file(src, dst, file_state, "none")
    IN  /\ lastOp' = "sync"
        /\ prevRet' = IF lastOp = "sync" THEN ret ELSE NoRet
        /\ ret' = [synced |-> r.out = "true", reason |-> r.reason, hash |-> r.hash]
        /\ dst' = r.dest
        /\ file_state' = r.state
        /\ UNCHANGED <<daemonVars, suffix, src, appendOnly, copyVars, parseVars, wholeVars>>

\* ---------------------------------------------- the assistants writing src
\* The tool that owns the transcript appends to it.
AppendBytes ==
    \E b \in ByteVals :
        /\ Len(src.bytes) < MaxLen
        /\ src' = File(src.bytes \o <<b>>)
        /\ lastOp' = "append"
        /\ UNCHANGED <<daemonVars, suffix, dst, file_state, ret, prevRet, appendOnly, copyVars, parseVars, wholeVars>>

IsPrefix(a, b) == Len(a) <= Len(b) /\ SubSeq(b, 1, Len(a)) = a

\* The file is truncated, rotated or rewritten in place.
Rewrite ==
    \E c \in Contents :
        /\ src.exists
        /\ ~IsPrefix(src.bytes, c)
        /\ src' = File(c)
        /\ lastOp' = "rewrite"
        /\ appendOnly' = FALSE
        /\ UNCHANGED <<daemonVars, suffix, dst, file_state, ret, prevRet, copyVars, parseVars, wholeVars>>

\* The file is removed.
Delete ==
    /\ src.exists
    /\ src' = NoFile
    /\ lastOp' = "delete"
    /\ appendOnly' = FALSE
    /\ UNCHANGED <<daemonVars, suffix, dst, file_state, ret, prevRet, copyVars, parseVars, wholeVars>>

\* ================================================= processor/parsers/*.py
\* Text is a sequence of tokens; "" is the empty sequence.
machine_id == "m"

PreviewLen == 200

Min(a, b) == IF a < b THEN a ELSE b

\* text[:n]
Take(text, n) == SubSeq(text, 1, Min(n, Len(text)))

RECURSIVE JoinParts(_, _)
\* sep.join(parts)
JoinParts(parts, sep) ==
    IF Len(parts) = 0 THEN <<>>
    ELSE IF Len(parts) = 1 THEN parts[1]
    ELSE parts[1] \o sep \o JoinParts(Tail(parts), sep)

\* hashlib.sha256(content.encode()).hexdigest()[:16], as an ideal hash
content_hash(content) == <<"sha">> \o content

\* CanonicalMessage.id
MsgId(m) == <<m.source, m.machine_id, m.conversation_id, m.ts, content_hash(m.content)>>

CanonicalMessage(source, project, conversation_id, ts, role, content, raw_offset) ==
    [source |-> source, machine_id |-> machine_id, project |-> project,
     conversation_id |-> conversation_id, ts |-> ts, role |-> role,
     content |-> content, raw_offset |-> raw_offset]

\* ---- the JSON values a line can hold
\* kind:    "badutf8" (bytes that are not UTF-8), "invalid" (not JSON),
\*          "blank" (whitespace), "nonobject" (JSON array, number, string,
\*          null), "object"
\* type:    entry["type"]
\* inner:   the value under "message" (Claude Code) or "payload" (Codex):
\*          "absent", "null", "string" or "object"
\* ptype:   payload["type"]
\* role:    message["role"] / payload["role"], "" when absent
\* content: message["content"] / payload["content"] / payload["message"]
\* ms:      the ISO timestamp as milliseconds since the epoch, -1 when absent
\* cwd:     entry["cwd"] / payload["cwd"];  sid: payload["id"]
\* len:     the number of bytes of the line without its newline
Json(kind, type, inner, ptype, role, content, ms, cwd, sid, len) ==
    [kind |-> kind, type |-> type, inner |-> inner, ptype |-> ptype,
     role |-> role, content |-> content, ms |-> ms, cwd |-> cwd, sid |-> sid,
     len |-> len]

CNone == [t |-> "none", s |-> <<>>, blocks |-> <<>>]
CStr(s) == [t |-> "str", s |-> s, blocks |-> <<>>]
CList(blocks) == [t |-> "list", s |-> <<>>, blocks |-> blocks]
Block(bt, text, name) == [bt |-> bt, text |-> text, name |-> name]

JInvalid == Json("invalid", "", "absent", "", "", CNone, -1, "", "", 2)
JBlank == Json("blank", "", "absent", "", "", CNone, -1, "", "", 1)
JBadUtf8 == Json("badutf8", "", "absent", "", "", CNone, -1, "", "", 1)
JNonObject == Json("nonobject", "", "absent", "", "", CNone, -1, "", "", 2)

\* Claude Code lines
CCUserA == Json("object", "user", "object", "", "user", CStr(<<"a">>), 1000, "p", "", 3)
CCUserAgain == Json("object", "user", "object", "", "user", CStr(<<"a">>), 1500, "p", "", 4)
CCAssistant ==
    Json("object", "assistant", "object", "", "assistant",
         CList(<<Block("text", <<"b">>, ""), Block("tool_use", <<>>, "T")>>),
         2000, "p", "", 5)
CCQueueOp == Json("object", "queue-operation", "absent", "", "", CNone, 2000, "", "", 2)
CCNullMessage == Json("object", "user", "null", "", "", CNone, 1000, "p", "", 3)
\* a user entry whose message.role is a string outside the role vocabulary
CCOddRole == Json("object", "user", "object", "", "banana", CStr(<<"c">>), 3000, "p", "", 3)

ClaudeBodies ==
    {JInvalid, JBlank, JNonObject, CCUserA, CCUserAgain, CCAssistant, CCQueueOp,
     CCNullMessage, CCOddRole}

\* Codex lines
CXMeta == Json("object", "session_meta", "object", "", "", CNone, 1000, "p", "s1", 3)
CXItem ==
    Json("object", "response_item", "object", "message", "developer",
         CList(<<Block("input_text", <<"a">>, "")>>), 1000, "", "", 4)
CXUserMsg == Json("object", "event_msg", "object", "user_message", "", CStr(<<"a">>), 1500, "", "", 3)
CXAgentMsg == Json("object", "event_msg", "object", "agent_message", "", CStr(<<"b">>), 2000, "", "", 5)
CXTurnContext == Json("object", "turn_context", "object", "", "", CNone, 2000, "", "", 2)
CXNullPayload == Json("object", "response_item", "null", "", "", CNone, 1000, "", "", 3)

CodexBodies ==
    {JInvalid, JBadUtf8, JNonObject, CXMeta, CXItem, CXUserMsg, CXAgentMsg,
     CXTurnContext, CXNullPayload}

Bodies(p) == IF p = "claude_code" THEN ClaudeBodies ELSE CodexBodies

\* a line written without its newline yet: the writer was caught mid-write
\* after a complete value, or after text that is not JSON
UnterminatedBodies(p) ==
    IF p = "claude_code" THEN {JInvalid, CCUserA} ELSE {JInvalid, CXUserMsg}

Elem(body, nl) == [body |-> body, nl |-> nl]

Elements(p) ==
    {Elem(b, TRUE) : b \in Bodies(p)} \cup {Elem(b, FALSE) : b \in UnterminatedBodies(p)}

ElemLen(e) == e.body.len + (IF e.nl THEN 1 ELSE 0)

RECURSIVE FileSize(_)
\* path.stat().st_size
FileSize(f) == IF Len(f) = 0 THEN 0 ELSE ElemLen(f[1]) + FileSize(Tail(f))

\* ---- f.seek(from_offset); for line in f
NoLine == [start |-> -1, bodies |-> <<>>]

RECURSIVE SplitLines(_, _, _, _, _, _)
\* The physical lines read after the seek, each with the offset it starts at
\* and the values written on it. A seek into the middle of a value leaves
\* text that is not JSON.
SplitLines(f, i, pos, from, open, out) ==
    IF i > Len(f)
    THEN IF open.start >= 0 THEN Append(out, open) ELSE out
    ELSE
    LET e       == f[i]
        endBody == pos + e.body.len
        end     == pos + ElemLen(e)
    IN  IF end <= from
        THEN SplitLines(f, i + 1, end, from, open, out)
        ELSE
        LET st    == IF open.start >= 0 THEN open.start
                     ELSE IF pos < from THEN from ELSE pos
            piece == IF pos >= from THEN <<e.body>>
                     ELSE IF from < endBody THEN <<JInvalid>> ELSE <<>>
            cur   == [start |-> st, bodies |-> open.bodies \o piece]
        IN  IF e.nl
            THEN SplitLines(f, i + 1, end, from, NoLine, Append(out, cur))
            ELSE SplitLines(f, i + 1, end, from, cur, out)

\* the seek is skipped and the file is read from its start
read_lines_no_seek(f, from_offset) == SplitLines(f, 1, 0, 0, NoLine, <<>>)

read_lines(f, from_offset) == SplitLines(f, 1, 0, from_offset, NoLine, <<>>)

NotBlank(b) == b.kind # "blank"

\* a record written in two pieces: its first byte, and the rest of it
RecordHead(b) == [b EXCEPT !.kind = "head", !.len = 1]
RecordTail(b) == [b EXCEPT !.kind = "tail", !.len = b.len - 1]
\* the record a piece is a piece of
RecordOf(piece, len) == [piece EXCEPT !.kind = "object", !.len = len]

\* line.decode("utf-8").strip() followed by json.loads: the value of a line.
\* Two values on one line are "extra data", which is not JSON.
LineValue(bodies) ==
    LET nb == SelectSeq(bodies, NotBlank)
    IN  IF \E k \in DOMAIN bodies : bodies[k].kind = "badutf8" THEN JBadUtf8
        ELSE IF Len(nb) = 0 THEN JBlank
        ELSE IF Len(nb) = 1
             THEN IF nb[1].kind \in {"head", "tail"} THEN JInvalid ELSE nb[1]
        ELSE IF /\ Len(nb) = 2
                /\ nb[1].kind = "head"
                /\ nb[2].kind = "tail"
                /\ RecordOf(nb[1], 0) = RecordOf(nb[2], 0)
             THEN RecordOf(nb[1], nb[1].len + nb[2].len)
        ELSE JInvalid

\* f.tell() after the loop
TellAtEnd(f, from_offset) ==
    IF from_offset > FileSize(f) THEN from_offset ELSE FileSize(f)

\* _parse_timestamp: ISO 8601 to whole seconds, 0 when absent
parse_timestamp(ms) == IF ms < 0 THEN 0 ELSE ms \div 1000

\* ---- claude_code.py
RECURSIVE ClaudeBlocks(_)
ClaudeBlocks(blocks) ==
    IF Len(blocks) = 0 THEN <<>>
    ELSE
    LET b == blocks[1]
        part == IF b.bt = "text" THEN <<b.text>>
                ELSE IF b.bt = "tool_use" THEN <<(<<"[Tool: ", b.name, "]">>)>>
                ELSE IF b.bt = "tool_result" /\ Len(b.text) > 0
                THEN <<(<<"[Tool Result: ">> \o Take(b.text, PreviewLen) \o <<"...]">>)>>
                ELSE <<>>
    IN  part \o ClaudeBlocks(Tail(blocks))

claude_extract_content(content) ==
    IF content.t = "none" THEN <<>>
    ELSE IF content.t = "str" THEN content.s
    ELSE IF content.t = "list" THEN JoinParts(ClaudeBlocks(content.blocks), <<"\n">>)
    ELSE <<>>

Skip == [out |-> "skip"]
Raise == [out |-> "raise"]

\* the body of the loop of ClaudeCodeParser.parse for one line
ClaudeLine(line) ==
    LET entry == LineValue(line.bodies)
    IN  IF entry.kind = "badutf8" THEN Raise          \* UnicodeDecodeError
        ELSE IF entry.kind \in {"blank", "invalid"} THEN Skip
        ELSE IF entry.kind = "nonobject" THEN Raise   \* entry.get
        ELSE IF entry.type \notin {"user", "assistant"} THEN Skip
        ELSE IF entry.inner \in {"null", "string"} THEN Raise   \* message.get
        ELSE IF entry.inner = "absent" \/ entry.role = "" THEN Skip
        ELSE
        LET content == claude_extract_content(entry.content)
        IN  IF Len(content) = 0 THEN Skip
            ELSE [out |-> "msg",
                  msg |-> CanonicalMessage("claude_code", entry.cwd, "stem",
                                           parse_timestamp(entry.ms), entry.role,
                                           content, line.start)]

RECURSIVE ClaudeLoop(_, _, _)
ClaudeLoop(lines, i, messages) ==
    IF i > Len(lines) THEN [raised |-> FALSE, messages |-> messages]
    ELSE
    LET r == ClaudeLine(lines[i])
    IN  IF r.out = "raise" THEN [raised |-> TRUE, messages |-> <<>>]
        ELSE IF r.out = "skip" THEN ClaudeLoop(lines, i + 1, messages)
        ELSE ClaudeLoop(lines, i + 1, Append(messages, r.msg))

\* ---- codex.py
codex_map_role(role) ==
    IF role = "user" THEN "user"
    ELSE IF role = "assistant" THEN "assistant"
    ELSE IF role \in {"developer", "system"} THEN "system"
    ELSE ""

RECURSIVE CodexBlocks(_)
CodexBlocks(blocks) ==
    IF Len(blocks) = 0 THEN <<>>
    ELSE
    LET b == blocks[1]
        part == IF b.bt \in {"input_text", "output_text", "text"} THEN <<b.text>>
                ELSE <<>>
    IN  part \o CodexBlocks(Tail(blocks))

codex_extract_content(content) ==
    IF content.t = "none" THEN <<>>
    ELSE IF content.t = "str" THEN content.s
    ELSE IF content.t = "list" THEN JoinParts(CodexBlocks(content.blocks), <<"\n">>)
    ELSE <<>>

\* the session id recovered from the file name (_extract_session_id)
FilenameSessionId == "uuid"

\* the body of the loop of CodexParser.parse for one line, given the session
\* id and project gathered so far
CodexLine(line, session_id, project) ==
    LET entry == LineValue(line.bodies)
        ts    == parse_timestamp(entry.ms)
        Msg(role, content) ==
            [out |-> "msg",
             msg |-> CanonicalMessage("codex", project, session_id, ts, role,
                                      content, line.start)]
    IN  IF entry.kind = "badutf8" THEN Raise
        ELSE IF entry.kind \in {"blank", "invalid"} THEN Skip
        ELSE IF entry.kind = "nonobject" THEN Raise
        ELSE IF entry.type = "session_meta"
        THEN IF entry.inner \in {"null", "string"} THEN Raise
             ELSE [out |-> "meta",
                   project |-> IF entry.inner = "absent" THEN "" ELSE entry.cwd,
                   session_id |-> IF entry.inner = "object" /\ entry.sid # ""
                                  THEN entry.sid ELSE session_id]
        ELSE IF entry.type = "response_item"
        THEN IF entry.inner \in {"null", "string"} THEN Raise
             ELSE IF entry.inner = "absent" \/ entry.ptype # "message" THEN Skip
             ELSE IF entry.role = "" \/ codex_map_role(entry.role) = "" THEN Skip
             ELSE LET content == codex_extract_content(entry.content)
                  IN  IF Len(content) = 0 THEN Skip
                      ELSE Msg(codex_map_role(entry.role), content)
        ELSE IF entry.type = "event_msg"
        THEN IF entry.inner \in {"null", "string"} THEN Raise
             ELSE IF entry.inner = "absent" THEN Skip
             ELSE IF entry.ptype = "user_message"
             THEN IF entry.content.t = "str" /\ Len(entry.content.s) > 0
                  THEN Msg("user", entry.content.s) ELSE Skip
             ELSE IF entry.ptype = "agent_message"
             THEN IF entry.content.t = "str" /\ Len(entry.content.s) > 0
                  THEN Msg("assistant", entry.content.s) ELSE Skip
             ELSE Skip
        ELSE Skip

RECURSIVE CodexLoop(_, _, _, _, _)
CodexLoop(lines, i, messages, session_id, project) ==
    IF i > Len(lines) THEN [raised |-> FALSE, messages |-> messages]
    ELSE
    LET r == CodexLine(lines[i], session_id, project)
    IN  IF r.out = "raise" THEN [raised |-> TRUE, messages |-> <<>>]
        ELSE IF r.out = "skip" THEN CodexLoop(lines, i + 1, messages, session_id, project)
        ELSE IF r.out = "meta"
        THEN CodexLoop(lines, i + 1, messages, r.session_id, r.project)
        ELSE CodexLoop(lines, i + 1, Append(messages, r.msg), session_id, project)

\* Parser.parse(path, machine_id, from_offset) of the two line-delimited
\* parsers: the messages and the new offset, or an exception
parse(p, f, from_offset) ==
    LET lines == read_lines(f, from_offset)
        r == IF p = "claude_code" THEN ClaudeLoop(lines, 1, <<>>)
             ELSE CodexLoop(lines, 1, <<>>, FilenameSessionId, "")
    IN  [raised |-> r.raised, messages |-> r.messages,
         new_offset |-> IF r.raised THEN 0 ELSE TellAtEnd(f, from_offset)]

LineParsers == {"claude_code", "codex"}

NoParse == [raised |-> FALSE, messages |-> <<>>, new_offset |-> 0, from |-> 0,
            since |-> <<>>]

ParseIdle ==
    /\ parser = "claude_code"
    /\ pfile = <<>>
    /\ proc_offset = 0
    /\ parse_res = NoParse
    /\ first_res = NoParse
    /\ appended = <<>>
    /\ nparse = 0

\* ================================ whole-file parsers (gemini.py, vscode.py,
\* opencode.py, antigravity.py)
\* A session on disk: decodes is "no" (not JSON), "nonobject" (a JSON array)
\* or "object"; sid is the session id field ("" when absent); entries are the
\* messages (Gemini, Antigravity), the requests (VS Code) or the message
\* files in file-name order with their parts (OpenCode); size is the number
\* of bytes of the session file.
WEntry(role, content, ms, reply) ==
    [role |-> role, content |-> content, ms |-> ms, reply |-> reply]

\* what each tool writes: a user turn (with the assistant's reply, which only
\* VS Code keeps in the same request), an assistant turn in the tool's own
\* vocabulary, and an entry that is not part of the conversation
WEntries(p) ==
    {WEntry("user", <<"a">>, 2000, <<"b">>),
     WEntry(IF p = "gemini_cli" THEN "gemini"
            ELSE IF p = "antigravity" THEN "Model" ELSE "assistant",
            <<"b">>, 1500, <<>>),
     WEntry("info", <<"c">>, 1000, <<>>)}

WSession(decodes, sid, entries, size) ==
    [decodes |-> decodes, sid |-> sid, entries |-> entries, size |-> size]

WholeParsers == {"gemini_cli", "vscode_copilot", "opencode", "antigravity"}

WMessage(source, conversation_id, ts, role, content) ==
    [source |-> source, machine_id |-> machine_id, conversation_id |-> conversation_id,
     ts |-> ts, role |-> role, content |-> content]

\* timestamp_ms // 1000 if timestamp_ms else 0
ms_to_seconds(ms) == IF ms > 0 THEN ms \div 1000 ELSE 0

gemini_map_role(t) ==
    IF t = "user" THEN "user" ELSE IF t = "gemini" THEN "assistant" ELSE ""

\* str.lower() on the role vocabulary of the model
LowerRole(r) == IF r = "Model" THEN "model" ELSE r

antigravity_normalize_role(role) ==
    LET r == LowerRole(role)
    IN  IF r \in {"user", "human"} THEN "user"
        ELSE IF r \in {"assistant", "model", "ai", "gemini"} THEN "assistant"
        ELSE IF r = "system" THEN "system"
        ELSE IF r \in {"tool", "function"} THEN "tool"
        ELSE ""

RECURSIVE GeminiMessages(_, _)
GeminiMessages(entries, sid) ==
    IF Len(entries) = 0 THEN <<>>
    ELSE
    LET e == entries[1]
        role == gemini_map_role(e.role)
        one == IF role = "" \/ Len(e.content) = 0 THEN <<>>
               ELSE <<WMessage("gemini_cli", sid, parse_timestamp(e.ms), role, e.content)>>
    IN  one \o GeminiMessages(Tail(entries), sid)

RECURSIVE VSCodeMessages(_, _)
VSCodeMessages(entries, sid) ==
    IF Len(entries) = 0 THEN <<>>
    ELSE
    LET e == entries[1]
        ts == ms_to_seconds(e.ms)
        user == IF Len(e.content) = 0 THEN <<>>
                ELSE <<WMessage("vscode_copilot", sid, ts, "user", e.content)>>
        assistant == IF Len(e.reply) = 0 THEN <<>>
                     ELSE <<WMessage("vscode_copilot", sid, ts, "assistant", e.reply)>>
    IN  user \o assistant \o VSCodeMessages(Tail(entries), sid)

RECURSIVE OpenCodeMessages(_, _)
OpenCodeMessages(entries, sid) ==
    IF Len(entries) = 0 THEN <<>>
    ELSE
    LET e == entries[1]
        one == IF e.role \notin {"user", "assistant"} \/ Len(e.content) = 0 THEN <<>>
               ELSE <<WMessage("opencode", sid, ms_to_seconds(e.ms), e.role, e.content)>>
    IN  one \o OpenCodeMessages(Tail(entries), sid)

RECURSIVE InsertByTs(_, _)
InsertByTs(sorted, m) ==
    IF Len(sorted) = 0 THEN <<m>>
    ELSE IF m.ts < sorted[1].ts THEN <<m>> \o sorted
    ELSE <<sorted[1]>> \o InsertByTs(Tail(sorted), m)

RECURSIVE SortByTs(_, _)
\* messages.sort(key=lambda m: m.ts): a stable sort
SortByTs(msgs, acc) ==
    IF Len(msgs) = 0 THEN acc ELSE SortByTs(Tail(msgs), InsertByTs(acc, msgs[1]))

\* _extract_timestamp reads a number above 1e12 as milliseconds; the model's
\* clock is scaled down so that the threshold fits TLC's integers
MsThreshold == 1000

antigravity_extract_timestamp(ms) ==
    IF ms > MsThreshold THEN ms \div 1000 ELSE ms

RECURSIVE AntigravityMessages(_, _)
AntigravityMessages(entries, sid) ==
    IF Len(entries) = 0 THEN <<>>
    ELSE
    LET e == entries[1]
        role == antigravity_normalize_role(e.role)
        ts == antigravity_extract_timestamp(e.ms)
        one == IF role = "" \/ Len(e.content) = 0 THEN <<>>
               ELSE <<WMessage("antigravity", sid, ts, role, e.content)>>
    IN  one \o AntigravityMessages(Tail(entries), sid)

WRaise == [raised |-> TRUE, messages |-> <<>>, new_offset |-> 0]
WReturn(messages, new_offset) ==
    [raised |-> FALSE, messages |-> messages, new_offset |-> new_offset]

\* session id field, else the file stem
SessionIdOr(f, stem) == IF f.sid = "" THEN stem ELSE f.sid

\* a parser that resumes from from_offset instead of reading the whole file
parse_whole_resuming(p, f, from_offset) ==
    IF from_offset >= f.size THEN WReturn(<<>>, f.size)
    ELSE WReturn(GeminiMessages(f.entries, SessionIdOr(f, "stem")), f.size)

\* Parser.parse(path, machine_id, from_offset) of the four whole-file parsers
parse_whole(p, f, from_offset) ==
    IF p = "gemini_cli"
    THEN IF f.decodes = "no" THEN WReturn(<<>>, f.size)
         ELSE IF f.decodes = "nonobject" THEN WRaise
         ELSE WReturn(GeminiMessages(f.entries, SessionIdOr(f, "stem")), f.size)
    ELSE IF p = "vscode_copilot"
    THEN IF f.decodes = "no" THEN WReturn(<<>>, 0)
         ELSE IF f.decodes = "nonobject" THEN WRaise
         ELSE WReturn(VSCodeMessages(f.entries, SessionIdOr(f, "stem")), f.size)
    ELSE IF p = "opencode"
    THEN IF f.decodes = "no" THEN WReturn(<<>>, f.size)
         ELSE IF f.decodes = "nonobject" THEN WRaise
         ELSE WReturn(SortByTs(OpenCodeMessages(f.entries, SessionIdOr(f, "stem")), <<>>),
                      f.size)
    ELSE IF f.decodes = "no" THEN WReturn(<<>>, 0)
         ELSE WReturn(AntigravityMessages(f.entries, SessionIdOr(f, "stem")), f.size)

RECURSIVE Ids(_)
\* the ids of a message list, in order
Ids(msgs) == IF Len(msgs) = 0 THEN <<>> ELSE <<MsgId(msgs[1])>> \o Ids(Tail(msgs))

IdSet(msgs) == {MsgId(msgs[k]) : k \in DOMAIN msgs}

NoWholeParse ==
    [valid |-> FALSE, raised |-> FALSE, messages |-> <<>>, new_offset |-> 0,
     from |-> 0, index |-> {}]

WholeIdle ==
    /\ wparser = "gemini_cli"
    /\ wfile = WSession("no", "", <<>>, 0)
    /\ wres = NoWholeParse
    /\ wprev = NoWholeParse
    /\ windex = {}
    /\ nwrites = 0

\* ================================================= processor/daemon.py
\* A file of the inbox is named by the parts of its path relative to the
\* inbox: <machine_id>/<source>/<file>.
UnknownSourcePath == <<"m", "aider", "stem.jsonl">>
ClaudePath == <<"m", "claude_code", "stem.jsonl">>
GeminiPath == <<"m", "gemini_cli", "stem.json">>
OrphanPath == <<"stem.jsonl">>

InboxPaths == {UnknownSourcePath, ClaudePath, GeminiPath, OrphanPath}

\* sorted(files) of discover_inbox_files
SortedPaths == <<UnknownSourcePath, ClaudePath, GeminiPath, OrphanPath>>

\* what a file of the inbox holds: the lines of a .jsonl transcript, the
\* session of a .json one, and its modification time
InboxFile(lines, session, mtime) ==
    [exists |-> TRUE, lines |-> lines, session |-> session, mtime |-> mtime]

NoSession == WSession("no", "", <<>>, 0)

NoInboxFile == [exists |-> FALSE, lines |-> <<>>, session |-> NoSession, mtime |-> 0]

\* the lines the collector delivers to the Claude Code transcript
InboxLines == {Elem(CCAssistant, TRUE), Elem(CCNullMessage, TRUE)}

\* the sessions the collector delivers as the Gemini snapshot
UserSession == WSession("object", "s1", <<WEntry("user", <<"a">>, 2000, <<>>)>>, 6)

InboxSessions ==
    {UserSession,
     WSession("object", "s1",
              <<WEntry("user", <<"a">>, 2000, <<>>),
                WEntry("gemini", <<"b">>, 3000, <<>>)>>, 8),
     WSession("nonobject", "", <<>>, 2)}

discover_inbox_files(box) == SelectSeq(SortedPaths, LAMBDA p : box[p].exists)

detect_source_from_path(path) == IF Len(path) >= 2 THEN path[2] ELSE "None"

\* a parser is registered for a source no parser module declares
ParserRegistry_with_aider == LineParsers \cup WholeParsers \cup {"aider"}

\* ParserRegistry.get(source) is not None
ParserRegistry == LineParsers \cup WholeParsers

\* the stability window of process_file, in ticks of the model's clock
stability_seconds == 1

\* the age of the file is not looked at
is_file_stable_any_age(f, time) == f.exists

is_file_stable(f, time) == f.exists /\ time - f.mtime >= stability_seconds

\* ProcessorState: one row per path
NoRow == [known |-> FALSE, last_offset |-> 0, last_processed |-> 0]

\* the stored offset is not read back
get_last_offset_zero(row) == 0

get_last_offset(row) == IF row.known THEN row.last_offset ELSE 0

\* parser.parse(file_path, machine_id, from_offset=last_offset)
parse_path(source, f, from_offset) ==
    IF ~f.exists THEN WRaise
    ELSE IF source \in LineParsers THEN parse(source, f.lines, from_offset)
    ELSE parse_whole(source, f.session, from_offset)

\* indexer.upsert_messages(messages): the import succeeds for every document,
\* is refused for the first one, or raises (the backend cannot be reached)
IndexOutcomes == {"ok", "partial", "raise"}

upsert_messages(messages, outcome) ==
    IF outcome = "raise" THEN [raised |-> TRUE, success |-> 0, failed |-> 0, ids |-> {}]
    ELSE IF outcome = "partial"
    THEN [raised |-> FALSE, success |-> Len(messages) - 1, failed |-> 1,
          ids |-> IdSet(Tail(messages))]
    ELSE [raised |-> FALSE, success |-> Len(messages), failed |-> 0,
          ids |-> IdSet(messages)]

\* ---- _update_conversation_from_messages
TitleLen == 100
ConvPreviewLen == 200

RECURSIVE LStrip(_)
LStrip(s) == IF Len(s) > 0 /\ s[1] = " " THEN LStrip(Tail(s)) ELSE s

RECURSIVE RStrip(_)
RStrip(s) ==
    IF Len(s) > 0 /\ s[Len(s)] = " " THEN RStrip(SubSeq(s, 1, Len(s) - 1)) ELSE s

\* str.strip() on text whose only whitespace token is " "
Strip(s) == RStrip(LStrip(s))

\* the cut text is kept as it is
Truncate_unstripped(content, n) ==
    Take(content, n) \o (IF Len(content) > n THEN <<"...">> ELSE <<>>)

\* content[:n].strip(), then "..." when len(content) > n
Truncate(content, n) ==
    Strip(Take(content, n)) \o (IF Len(content) > n THEN <<"...">> ELSE <<>>)

ProjectOf(m) == IF "project" \in DOMAIN m THEN m.project ELSE ""

\* the title: the first user message of sorted(conv_messages, key=ts), else
\* (also when that title is empty) conv_messages[0]
ConversationTitle(conv_messages) ==
    LET users == SelectSeq(SortByTs(conv_messages, <<>>), LAMBDA m : m.role = "user")
        title == IF Len(users) > 0 THEN Truncate(users[1].content, TitleLen) ELSE <<>>
    IN  IF Len(title) > 0 THEN title
        ELSE Truncate(conv_messages[1].content, TitleLen)

\* max(conv_messages, key=lambda m: m.ts): the first message of the largest ts
MaxByTs(conv_messages) ==
    LET k == CHOOSE i \in DOMAIN conv_messages :
                 /\ \A j \in DOMAIN conv_messages :
                        conv_messages[j].ts <= conv_messages[i].ts
                 /\ \A j \in 1..(i - 1) : conv_messages[j].ts < conv_messages[i].ts
    IN  conv_messages[k]

MinTs(conv_messages) ==
    CHOOSE t \in {conv_messages[k].ts : k \in DOMAIN conv_messages} :
        \A k \in DOMAIN conv_messages : t <= conv_messages[k].ts

MaxTs(conv_messages) ==
    CHOOSE t \in {conv_messages[k].ts : k \in DOMAIN conv_messages} :
        \A k \in DOMAIN conv_messages : t >= conv_messages[k].ts

\* Conversation.id
ConversationId(source, machine, conv_id) == <<source, machine, conv_id>>

Conversation(conv_id, conv_messages) ==
    LET first_msg == conv_messages[1]
    IN  [id |-> ConversationId(first_msg.source, first_msg.machine_id, conv_id),
         source |-> first_msg.source,
         machine_id |-> first_msg.machine_id,
         project |-> ProjectOf(first_msg),
         conversation_id |-> conv_id,
         first_ts |-> MinTs(conv_messages),
         last_ts |-> MaxTs(conv_messages),
         message_count |-> Len(conv_messages),
         title |-> ConversationTitle(conv_messages),
         preview |-> Truncate(MaxByTs(conv_messages).content, ConvPreviewLen)]

\* the conversations built from one batch, one per conversation_id
ConversationsOf(messages) ==
    {Conversation(c, SelectSeq(messages, LAMBDA m : m.conversation_id = c)) :
        c \in {messages[k].conversation_id : k \in DOMAIN messages}}

\* documents.upsert(doc) for each document of docs
UpsertAll(collection, docs) ==
    {d \in collection : \A n \in docs : n.id # d.id} \cup docs

\* archive_file: <archive>/<YYYY-MM-DD>/<path relative to inbox>
DayLength == 2
DateOf(time) == time \div DayLength

ArchiveEntry(date, path, f) == [date |-> date, path |-> path, file |-> f]

archive_file(arch, path, f, time) ==
    {a \in arch : ~(a.date = DateOf(time) /\ a.path = path)}
        \cup {ArchiveEntry(DateOf(time), path, f)}

NoResult == [messages |-> 0, indexed |-> 0, archived |-> 0]

\* what process_file gets from the parser: the parser registered for the
\* source of the path is run from the stored offset and returns or raises;
\* a path with no source or a source with no parser gives nothing either
parser_output(path, st) ==
    LET source == detect_source_from_path(path)
    IN  IF source \in ParserRegistry
        THEN parse_path(source, st.inbox[path], get_last_offset(st.processed_files[path]))
        ELSE WRaise

\* process_file(file_path, inbox_path, archive_path, state, indexer,
\* stability_seconds) on the stores st, where r is what parser.parse returned
\* or raised (parser_output), io the outcome of the import, co of the
\* conversation upserts and ao of the move to the archive
process_file(path, st, r, io, co, ao) ==
    LET source == detect_source_from_path(path)
        f == st.inbox[path]
        row == st.processed_files[path]
        last_offset == get_last_offset(row)
        early == [result |-> NoResult, parsed |-> FALSE, from |-> last_offset,
                  new_offset |-> 0, messages |-> <<>>, indexing |-> "skipped",
                  stable |-> FALSE, inbox |-> st.inbox, archive |-> st.archive,
                  processed_files |-> st.processed_files,
                  ts_messages |-> st.ts_messages,
                  ts_conversations |-> st.ts_conversations]
    IN  IF source = "None" THEN early
        ELSE IF source \notin ParserRegistry THEN early
        ELSE IF r.raised THEN early
        ELSE
        LET indexing == st.indexer # "None" /\ Len(r.messages) > 0
            up == upsert_messages(r.messages, io)
            indexed == IF indexing /\ ~up.raised THEN up.success ELSE 0
            newMessages == IF indexing /\ ~up.raised
                           THEN st.ts_messages \cup up.ids ELSE st.ts_messages
            newConversations ==
                IF indexing /\ ~up.raised /\ co = "ok"
                THEN UpsertAll(st.ts_conversations, ConversationsOf(r.messages))
                ELSE st.ts_conversations
            newRow == [known |-> TRUE, last_offset |-> r.new_offset,
                       last_processed |-> st.now]
            stable == is_file_stable(f, st.now)
            archived == stable /\ ao = "ok"
        IN  [result |-> [messages |-> Len(r.messages), indexed |-> indexed,
                         archived |-> IF archived THEN 1 ELSE 0],
             parsed |-> TRUE, from |-> last_offset, new_offset |-> r.new_offset,
             messages |-> r.messages,
             indexing |-> IF ~indexing THEN "skipped" ELSE io,
             stable |-> stable,
             inbox |-> IF archived THEN [st.inbox EXCEPT ![path] = NoInboxFile]
                       ELSE st.inbox,
             archive |-> IF archived THEN archive_file(st.archive, path, f, st.now)
                         ELSE st.archive,
             processed_files |-> [st.processed_files EXCEPT ![path] = newRow],
             ts_messages |-> newMessages,
             ts_conversations |-> newConversations]

\* ------------------------------------------------- the daemons' main loops
MaxAttempts == 10
MaxCycles == 2
MaxInterval == 3
MaxTime == 1
MaxInboxLines == 2
MaxDeliveries == 1

\* the flag is never seen
is_shutdown_requested_never == FALSE

is_shutdown_requested == shutdown_requested

\* an increment of no time at all
sleep_time_zero(remaining) == 0

\* min(1.0, sleep_remaining), in half seconds
sleep_time(remaining) == Min(2, remaining)

NoTotals == [files |-> 0, messages |-> 0, indexed |-> 0, archived |-> 0]

NoSeen == [valid |-> FALSE, new_offset |-> 0, messages |-> <<>>]

NoCall ==
    [valid |-> FALSE, path |-> <<>>, parsed |-> FALSE, from |-> 0, new_offset |-> 0,
     messages |-> <<>>, result |-> NoResult, indexing |-> "skipped",
     stable |-> FALSE, ao |-> "ok", indexer |-> "None", prev |-> NoSeen,
     row_before |-> NoRow, file_before |-> NoInboxFile, archive_before |-> {}]

LoopIdle ==
    /\ pc = "idle"
    /\ shutdown_requested = FALSE
    /\ interval = 1
    /\ sleep_remaining = 0
    /\ ncycles = 0
    /\ files = <<>>
    /\ discovered = <<>>
    /\ handled = <<>>

ProcIdle ==
    /\ attempt = 0
    /\ indexer = "None"
    /\ inbox = [p \in InboxPaths |-> NoInboxFile]
    /\ archive = {}
    /\ processed_files = [p \in InboxPaths |-> NoRow]
    /\ ts_messages = {}
    /\ ts_conversations = {}
    /\ now = 0
    /\ totals = NoTotals
    /\ pf = NoCall
    /\ seen = [p \in InboxPaths |-> NoSeen]
    /\ ndeliver = 0

\* ------------------------------------------------- the collector daemon
\* discover_all_sources(): the transcripts found, in the order of the loops
SourcePaths == <<"f1", "f2", "f3">>

SourceFiles == {SourcePaths[k] : k \in DOMAIN SourcePaths}

MaxSourceWrites == 1

discover_all_sources(srcs) == SelectSeq(SourcePaths, LAMBDA p : srcs[p].exists)

\* what can go wrong inside sync_file: the source cannot be read
\* (compute_sha256 raises), or the destination cannot be written
Faults == {"none", "read", "write"}

\* a file whose sync raised is counted too
count_synced_or_raised(count, out) == IF out \in {"true", "raise"} THEN count + 1 ELSE count

\* the count after sync_file returned or raised
count_synced(count, out) == IF out = "true" THEN count + 1 ELSE count

RECURSIVE CountTrue(_)
CountTrue(outs) ==
    IF Len(outs) = 0 THEN 0
    ELSE (IF outs[1] = "true" THEN 1 ELSE 0) + CountTrue(Tail(outs))

CycIdle ==
    /\ sources = [p \in SourceFiles |-> NoFile]
    /\ outbox = [p \in SourceFiles |-> NoFile]
    /\ collector_state = [p \in SourceFiles |-> NoState]
    /\ synced_count = 0
    /\ sync_out = <<>>
    /\ nsrcwrites = 0

ConvIdle ==
    /\ batch = <<>>
    /\ upserted = {}
    /\ ids = <<>>

DaemonIdle == LoopIdle /\ ProcIdle /\ CycIdle /\ ConvIdle

vars == <<suffix, src, dst, file_state, ret, prevRet, lastOp, appendOnly,
          copy_from, copy_ret,
          parser, pfile, proc_offset, parse_res, first_res, appended, nparse,
          wparser, wfile, wres, wprev, windex, nwrites,
          pc, shutdown_requested, interval, sleep_remaining, ncycles, files,
          discovered, handled,
          attempt, indexer, inbox, archive, processed_files, ts_messages,
          ts_conversations, now, totals, pf, seen, ndeliver,
          sources, outbox, collector_state, synced_count, sync_out, nsrcwrites,
          batch, upserted, ids>>

Init ==
    /\ suffix \in Suffixes
    /\ src \in {NoFile, File(<<>>)}
    /\ dst \in {NoFile} \cup {File(c) : c \in BoundedSeq(ByteVals, 1)}
    /\ file_state = NoState
    /\ ret = NoRet
    /\ prevRet = NoRet
    /\ lastOp = "init"
    /\ appendOnly = TRUE
    /\ copy_from = 0
    /\ copy_ret = 0
    /\ ParseIdle
    /\ WholeIdle
    /\ DaemonIdle

Next == SyncFile \/ AppendBytes \/ Rewrite \/ Delete

Spec == Init /\ [][Next]_vars

\* ---------------------------------- copy_jsonl_incremental called directly
MaxOffset == MaxLen + 1
MaxDest == 5

CopyCall ==
    \E n \in 0..MaxOffset :
        LET c == copy_jsonl_incremental(src, dst, n)
        IN  /\ src.exists
            /\ Len(c.dest.bytes) <= MaxDest
            /\ dst' = c.dest
            /\ copy_from' = n
            /\ copy_ret' = c.ret
            /\ lastOp' = "copy"
            /\ UNCHANGED <<daemonVars, suffix, src, file_state, ret, prevRet, appendOnly, parseVars, wholeVars>>

InitCopy ==
    /\ suffix = ".jsonl"
    /\ src \in {File(c) : c \in Contents}
    /\ dst \in {NoFile} \cup {File(c) : c \in BoundedSeq(ByteVals, 1)}
    /\ file_state = NoState
    /\ ret = NoRet
    /\ prevRet = NoRet
    /\ lastOp = "init"
    /\ appendOnly = TRUE
    /\ copy_from = 0
    /\ copy_ret = 0
    /\ ParseIdle
    /\ WholeIdle
    /\ DaemonIdle

NextCopy == CopyCall \/ AppendBytes

SpecCopy == InitCopy /\ [][NextCopy]_vars

\* ------------------------------------------ the collector dying mid-file
\* sync_file is killed after it touched the destination and before
\* state.update_file_state committed: the destination is as the copy (or, for
\* a fresh copy, the unlink) left it, the row is the one of the last commit
SyncFileCrash ==
    LET r == sync_file(src, dst, file_state, "none")
    IN  /\ r.out = "true"
        /\ Len(r.dest.bytes) <= MaxDest
        /\ \E d \in {r.dest} \cup
                     (IF is_jsonl /\ r.reason \in FreshReasons THEN {NoFile} ELSE {}) :
              dst' = d
        /\ lastOp' = "crash"
        /\ ret' = NoRet
        /\ prevRet' = NoRet
        /\ UNCHANGED <<daemonVars, suffix, src, file_state, appendOnly, copyVars,
                       parseVars, wholeVars>>

NextCrash == SyncFile \/ AppendBytes \/ SyncFileCrash

SpecCrash == Init /\ [][NextCrash]_vars

\* ------------------------- the assistant appending while sync_file runs
\* what the assistant appends between two reads of the source
Chunks == {<<>>} \cup {<<v>> : v \in ByteVals}

\* copy_jsonl_incremental when the source is s3 at its stat() and s4 when it
\* is opened and read
copy_jsonl_incremental_racing(s3, s4, dest, from_offset) ==
    LET file_size == Len(s3.bytes)
    IN  IF file_size <= from_offset
        THEN [dest |-> dest, ret |-> from_offset]
        ELSE [dest |-> File(dest.bytes \o BytesFrom(s4.bytes, from_offset)),
              ret  |-> file_size]

\* sync_file on a .jsonl source that is s1 when needs_sync looks at it, s2 at
\* the stat() of sync_file, s3 at the stat() of the copy and s4 at its read
sync_file_racing(s1, s2, s3, s4, dest, state) ==
    LET d == needs_sync(s1, state)
        current_size == Len(s2.bytes)
    IN  IF ~d.needs
        THEN [out |-> "false", reason |-> d.reason, hash |-> d.hash,
              dest |-> dest, state |-> state]
        ELSE LET fresh == d.reason \in FreshReasons
                 dest0 == IF fresh THEN NoFile ELSE dest
                 from_offset == IF fresh THEN 0 ELSE state.last_offset
                 c == copy_jsonl_incremental_racing(s3, s4, dest0, from_offset)
             IN  [out |-> "true", reason |-> d.reason, hash |-> d.hash,
                  dest |-> c.dest,
                  state |-> update_file_state(current_size, d.hash, c.ret)]

\* sync_file on the tracked file while the assistant appends to it
SyncFileRacing ==
    /\ src.exists
    /\ is_jsonl
    /\ \E a, b, c \in Chunks :
          /\ Len(src.bytes) + Len(a) + Len(b) + Len(c) <= MaxLen
          /\ LET s2 == File(src.bytes \o a)
                 s3 == File(s2.bytes \o b)
                 s4 == File(s3.bytes \o c)
             IN  \E r \in {sync_file_racing(src, s2, s3, s4, dst, file_state)} :
                    /\ Len(r.dest.bytes) <= MaxDest
                    /\ ret' = [synced |-> r.out = "true", reason |-> r.reason,
                               hash |-> r.hash]
                    /\ dst' = r.dest
                    /\ file_state' = r.state
                    /\ src' = s4
    /\ lastOp' = "sync"
    /\ prevRet' = IF lastOp = "sync" THEN ret ELSE NoRet
    /\ UNCHANGED <<daemonVars, suffix, appendOnly, copyVars, parseVars, wholeVars>>

NextRace == SyncFileRacing \/ AppendBytes

SpecRace == Init /\ [][NextRace]_vars

\* ------------------------------------------- the processor reading the inbox
MaxLines == 3
MaxParses == 2

\* the collector delivers one more line (or the start of one) to the inbox file
AppendLine ==
    \E e \in Elements(parser) :
        /\ Len(pfile) < MaxLines
        /\ pfile' = Append(pfile, e)
        /\ appended' = Append(appended, e)
        /\ lastOp' = "deliver"
        /\ UNCHANGED <<daemonVars, collectorVars2, copyVars, wholeVars, parser, proc_offset,
                       parse_res, first_res, nparse>>

\* process_file: the parse from the stored offset and the offset update
ParseFile ==
    LET r   == parse(parser, pfile, proc_offset)
        res == [raised |-> r.raised, messages |-> r.messages,
                new_offset |-> r.new_offset, from |-> proc_offset,
                since |-> appended]
    IN  /\ nparse < MaxParses
        /\ parse_res' = res
        /\ first_res' = IF nparse = 0 THEN res ELSE first_res
        /\ proc_offset' = IF r.raised THEN proc_offset ELSE r.new_offset
        /\ appended' = <<>>
        /\ nparse' = nparse + 1
        /\ lastOp' = "parse"
        /\ UNCHANGED <<daemonVars, collectorVars2, copyVars, wholeVars, parser, pfile>>

InitParse ==
    /\ suffix = ".jsonl"
    /\ src = NoFile
    /\ dst = NoFile
    /\ file_state = NoState
    /\ ret = NoRet
    /\ prevRet = NoRet
    /\ lastOp = "init"
    /\ appendOnly = TRUE
    /\ copy_from = 0
    /\ copy_ret = 0
    /\ parser \in LineParsers
    /\ pfile = <<>>
    /\ proc_offset = 0
    /\ parse_res = NoParse
    /\ first_res = NoParse
    /\ appended = <<>>
    /\ nparse = 0
    /\ WholeIdle
    /\ DaemonIdle

NextParse == AppendLine \/ ParseFile

SpecParse == InitParse /\ [][NextParse]_vars

\* ------------------------- the collector's copy stopping in mid-record
\* the record of each format that the copy can cut in two
SplitRecord(p) == IF p = "claude_code" THEN CCUserA ELSE CXUserMsg

\* the file ends with the first piece of a record
EndsInHead == Len(pfile) > 0 /\ pfile[Len(pfile)].body.kind = "head"

\* a sync copies a whole record line to the inbox file
AppendRecord ==
    /\ Len(pfile) < MaxLines
    /\ ~EndsInHead
    /\ \E e \in {Elem(SplitRecord(parser), TRUE)} :
          /\ pfile' = Append(pfile, e)
          /\ appended' = Append(appended, e)
    /\ lastOp' = "deliver"
    /\ UNCHANGED <<daemonVars, collectorVars2, copyVars, wholeVars, parser, proc_offset,
                   parse_res, first_res, nparse>>

\* a sync copies a byte range that stops after the first byte of a record
AppendHead ==
    /\ Len(pfile) < MaxLines
    /\ ~EndsInHead
    /\ \E e \in {Elem(RecordHead(SplitRecord(parser)), FALSE)} :
          /\ pfile' = Append(pfile, e)
          /\ appended' = Append(appended, e)
    /\ lastOp' = "deliver"
    /\ UNCHANGED <<daemonVars, collectorVars2, copyVars, wholeVars, parser, proc_offset,
                   parse_res, first_res, nparse>>

\* the next sync copies the rest of that record and its newline
AppendTail ==
    /\ EndsInHead
    /\ \E e \in {Elem(RecordTail(SplitRecord(parser)), TRUE)} :
          /\ pfile' = Append(pfile, e)
          /\ appended' = Append(appended, e)
    /\ lastOp' = "deliver"
    /\ UNCHANGED <<daemonVars, collectorVars2, copyVars, wholeVars, parser, proc_offset,
                   parse_res, first_res, nparse>>

NextSplit == AppendRecord \/ AppendHead \/ AppendTail \/ ParseFile

SpecSplit == InitParse /\ [][NextSplit]_vars

\* ------------------------------------- the processor reading a session file
MaxEntries == 2
MaxWrites == 1

\* the sessions the tool can leave on disk: an empty file, text that is not
\* JSON, a JSON array, or a session object
WFiles(p) ==
    {WSession("no", "", <<>>, 0), WSession("no", "", <<>>, 3)}
    \cup {WSession("nonobject", "", e, 2 + Len(e)) : e \in BoundedSeq(WEntries(p), 1)}
    \cup {WSession("object", "", e, 2 + 2 * Len(e)) : e \in BoundedSeq(WEntries(p), 1)}
    \cup {WSession("object", "s1", e, 4 + 2 * Len(e)) :
             e \in BoundedSeq(WEntries(p), MaxEntries)}

\* the tool rewrites its session file
WriteWhole ==
    \E f \in WFiles(wparser) :
        /\ nwrites < MaxWrites
        /\ f # wfile
        /\ wfile' = f
        /\ nwrites' = nwrites + 1
        /\ lastOp' = "wwrite"
        /\ UNCHANGED <<daemonVars, collectorVars2, copyVars, parseVars, wparser, wres, wprev, windex>>

\* process_file on a whole-file format: the parse, with whatever offset is
\* stored, and the upsert of the messages by id
ParseWhole ==
    \E n \in {0, 1, wfile.size} :
        LET r == parse_whole(wparser, wfile, n)
        IN  /\ wres' = [valid |-> TRUE, raised |-> r.raised, messages |-> r.messages,
                        new_offset |-> r.new_offset, from |-> n, index |-> windex]
            /\ wprev' = IF lastOp = "wparse" THEN wres ELSE NoWholeParse
            /\ windex' = IF r.raised THEN windex ELSE windex \cup IdSet(r.messages)
            /\ lastOp' = "wparse"
            /\ UNCHANGED <<daemonVars, collectorVars2, copyVars, parseVars, wparser, wfile, nwrites>>

InitWhole ==
    /\ suffix = ".json"
    /\ src = NoFile
    /\ dst = NoFile
    /\ file_state = NoState
    /\ ret = NoRet
    /\ prevRet = NoRet
    /\ lastOp = "init"
    /\ appendOnly = TRUE
    /\ copy_from = 0
    /\ copy_ret = 0
    /\ ParseIdle
    /\ wparser \in WholeParsers
    /\ wfile \in WFiles(wparser)
    /\ wres = NoWholeParse
    /\ wprev = NoWholeParse
    /\ windex = {}
    /\ nwrites = 0
    /\ DaemonIdle

NextWhole == WriteWhole \/ ParseWhole

SpecWhole == InitWhole /\ [][NextWhole]_vars

\* ------------------------------------------------- the processor daemon
\* the stores process_file works on
Stores ==
    [inbox |-> inbox, archive |-> archive, processed_files |-> processed_files,
     ts_messages |-> ts_messages, ts_conversations |-> ts_conversations,
     indexer |-> indexer, now |-> now]

\* a file that gave no parsed output ends the loop
remaining_abort_on_error(queue, res) == IF res.parsed THEN Tail(queue) ELSE <<>>

\* the files left to the for loop after one file was handled
remaining(queue, res) == Tail(queue)

\* the retries go on until the index answers
after_attempt_until_success(n, ok) == IF ok THEN "loop" ELSE "connect"

\* where run_processor goes after its n-th attempt: break on success, the
\* next attempt after a failure, the loop after the last attempt
after_attempt(n, ok) ==
    IF ok THEN "loop" ELSE IF n < MaxAttempts THEN "connect" ELSE "loop"

\* run_processor: the connection attempts before the loop
Connect ==
    /\ pc = "connect"
    /\ \E ok \in BOOLEAN :
          /\ attempt' = attempt + 1
          /\ indexer' = IF ok THEN "up" ELSE "None"
          /\ pc' = after_attempt(attempt + 1, ok)
    /\ lastOp' = "connect"
    /\ UNCHANGED <<collectorVars2, copyVars, parseVars, wholeVars, convVars, cycVars,
                   shutdown_requested, interval, sleep_remaining, ncycles,
                   files, discovered, handled, inbox, archive, processed_files,
                   ts_messages, ts_conversations, now, totals, pf, seen,
                   ndeliver>>

\* while not is_shutdown_requested()
LoopCheck ==
    /\ pc = "loop"
    /\ is_shutdown_requested \/ ncycles < MaxCycles
    /\ IF is_shutdown_requested
       THEN pc' = "stopped" /\ UNCHANGED ncycles
       ELSE pc' = "begin" /\ ncycles' = ncycles + 1
    /\ lastOp' = "loop"
    /\ UNCHANGED <<collectorVars2, copyVars, parseVars, wholeVars, convVars,
                   shutdown_requested, interval, sleep_remaining, files,
                   discovered, handled, attempt, indexer, inbox, archive,
                   processed_files, ts_messages, ts_conversations, now, totals,
                   pf, seen, ndeliver, sources, outbox, collector_state,
                   synced_count, sync_out, nsrcwrites>>

\* run_processor_cycle: totals and discover_inbox_files
ProcessorBegin ==
    /\ pc = "begin"
    /\ pc' = "cycle"
    /\ files' = discover_inbox_files(inbox)
    /\ discovered' = discover_inbox_files(inbox)
    /\ handled' = <<>>
    /\ totals' = NoTotals
    /\ lastOp' = "begin"
    /\ UNCHANGED <<collectorVars2, copyVars, parseVars, wholeVars, convVars, cycVars,
                   shutdown_requested, interval, sleep_remaining, ncycles,
                   attempt, indexer, inbox, archive, processed_files,
                   ts_messages, ts_conversations, now, pf, seen, ndeliver>>

\* one iteration of the for loop: the flag is not set, and process_file runs
ProcessorFile ==
    /\ pc = "cycle"
    /\ Len(files) > 0
    /\ ~is_shutdown_requested
    /\ \E r \in {parser_output(Head(files), Stores)},
          io \in IndexOutcomes, co \in {"ok", "fail"}, ao \in {"ok", "raise"} :
          LET path == Head(files)
          IN  \E res \in {process_file(path, Stores, r, io, co, ao)} :
              /\ inbox' = res.inbox
              /\ archive' = res.archive
              /\ processed_files' = res.processed_files
              /\ ts_messages' = res.ts_messages
              /\ ts_conversations' = res.ts_conversations
              /\ totals' = [files |-> totals.files + 1,
                            messages |-> totals.messages + res.result.messages,
                            indexed |-> totals.indexed + res.result.indexed,
                            archived |-> totals.archived + res.result.archived]
              /\ files' = remaining(files, res)
              /\ handled' = Append(handled, path)
              /\ pf' = [valid |-> TRUE, path |-> path, parsed |-> res.parsed,
                        from |-> res.from, new_offset |-> res.new_offset,
                        messages |-> res.messages, result |-> res.result,
                        indexing |-> res.indexing, stable |-> res.stable,
                        ao |-> IF res.stable THEN ao ELSE "ok",
                        indexer |-> indexer, prev |-> seen[path],
                        row_before |-> processed_files[path],
                        file_before |-> inbox[path], archive_before |-> archive]
              /\ seen' = IF res.parsed
                         THEN [seen EXCEPT ![path] =
                                  [valid |-> TRUE, new_offset |-> res.new_offset,
                                   messages |-> res.messages]]
                         ELSE seen
    /\ lastOp' = "file"
    /\ UNCHANGED <<collectorVars2, copyVars, parseVars, wholeVars, convVars, cycVars, pc,
                   shutdown_requested, interval, sleep_remaining, ncycles,
                   discovered, attempt, indexer, now, ndeliver>>

\* the for loop ends: the list is exhausted, or the flag is set (break)
ProcessorReturn ==
    /\ pc = "cycle"
    /\ Len(files) = 0 \/ is_shutdown_requested
    /\ pc' = "after"
    /\ lastOp' = IF Len(files) = 0 THEN "cycle_done" ELSE "cycle_break"
    /\ UNCHANGED <<collectorVars2, copyVars, parseVars, wholeVars, convVars, cycVars,
                   shutdown_requested, interval, sleep_remaining, ncycles,
                   files, discovered, handled, attempt, indexer, inbox,
                   archive, processed_files, ts_messages, ts_conversations,
                   now, totals, pf, seen, ndeliver>>

\* after the cycle: break on the flag, else sleep_remaining = interval_seconds
AfterCycle ==
    /\ pc = "after"
    /\ IF is_shutdown_requested
       THEN pc' = "stopped" /\ UNCHANGED sleep_remaining
       ELSE pc' = "sleep" /\ sleep_remaining' = interval
    /\ lastOp' = "after"
    /\ UNCHANGED <<collectorVars2, copyVars, parseVars, wholeVars, convVars,
                   shutdown_requested, interval, ncycles, files, discovered,
                   handled, attempt, indexer, inbox, archive, processed_files,
                   ts_messages, ts_conversations, now, totals, pf, seen,
                   ndeliver, sources, outbox, collector_state, synced_count,
                   sync_out, nsrcwrites>>

\* while sleep_remaining > 0 and not is_shutdown_requested(): one increment
Sleep ==
    /\ pc = "sleep"
    /\ IF sleep_remaining > 0 /\ ~is_shutdown_requested
       THEN /\ sleep_remaining' = sleep_remaining - sleep_time(sleep_remaining)
            /\ pc' = "sleep"
            /\ lastOp' = "sleep"
       ELSE /\ pc' = "loop"
            /\ lastOp' = "wake"
            /\ UNCHANGED sleep_remaining
    /\ UNCHANGED <<collectorVars2, copyVars, parseVars, wholeVars, convVars,
                   shutdown_requested, interval, ncycles, files, discovered,
                   handled, attempt, indexer, inbox, archive, processed_files,
                   ts_messages, ts_conversations, now, totals, pf, seen,
                   ndeliver, sources, outbox, collector_state, synced_count,
                   sync_out, nsrcwrites>>

\* request_shutdown(), from a signal handler
RequestShutdown ==
    /\ pc \notin {"idle", "stopped"}
    /\ ~shutdown_requested
    /\ shutdown_requested' = TRUE
    /\ lastOp' = "request_shutdown"
    /\ UNCHANGED <<collectorVars2, copyVars, parseVars, wholeVars, convVars, pc,
                   interval, sleep_remaining, ncycles, files, discovered,
                   handled, attempt, indexer, inbox, archive, processed_files,
                   ts_messages, ts_conversations, now, totals, pf, seen,
                   ndeliver, sources, outbox, collector_state, synced_count,
                   sync_out, nsrcwrites>>

\* between two cycles, the transfer from a collector's outbox brings more
\* lines of the transcript (or the transcript itself), or a new snapshot of
\* the session
Deliver ==
    /\ pc = "loop"
    /\ ndeliver < MaxDeliveries
    /\ \/ \E e \in InboxLines :
             /\ Len(inbox[ClaudePath].lines) < MaxInboxLines
             /\ inbox' = [inbox EXCEPT ![ClaudePath] =
                             InboxFile(Append(inbox[ClaudePath].lines, e), NoSession, now)]
             /\ seen' = IF inbox[ClaudePath].exists THEN seen
                        ELSE [seen EXCEPT ![ClaudePath] = NoSeen]
       \/ \E session \in InboxSessions :
             /\ session # inbox[GeminiPath].session
             /\ inbox' = [inbox EXCEPT ![GeminiPath] = InboxFile(<<>>, session, now)]
             /\ seen' = [seen EXCEPT ![GeminiPath] = NoSeen]
    /\ ndeliver' = ndeliver + 1
    /\ lastOp' = "deliver_inbox"
    /\ UNCHANGED <<collectorVars2, copyVars, parseVars, wholeVars, convVars, cycVars, pc,
                   shutdown_requested, interval, sleep_remaining, ncycles,
                   files, discovered, handled, attempt, indexer, archive,
                   processed_files, ts_messages, ts_conversations, now, totals,
                   pf>>

\* time passes between two cycles
Tick ==
    /\ pc = "loop"
    /\ now < MaxTime
    /\ now' = now + 1
    /\ lastOp' = "tick"
    /\ UNCHANGED <<collectorVars2, copyVars, parseVars, wholeVars, convVars, cycVars, pc,
                   shutdown_requested, interval, sleep_remaining, ncycles,
                   files, discovered, handled, attempt, indexer, inbox,
                   archive, processed_files, ts_messages, ts_conversations,
                   totals, pf, seen, ndeliver>>

\* a transcript and a session that the daemon finds in its inbox
StartFile(p) ==
    IF p = ClaudePath THEN InboxFile(<<Elem(CCUserA, TRUE)>>, NoSession, 0)
    ELSE IF p = GeminiPath THEN InboxFile(<<>>, UserSession, 0)
    ELSE InboxFile(<<>>, NoSession, 0)

\* what the inbox holds when the cycles start: nothing, a transcript and a
\* session, or also the two files no parser knows
InboxStarts ==
    {[p \in InboxPaths |-> IF p \in S THEN StartFile(p) ELSE NoInboxFile] :
        S \in {{}, {ClaudePath, GeminiPath}, InboxPaths}}

\* the processor's cycles, whatever the connection attempts gave and
\* whatever the inbox holds
InitCycles ==
    /\ suffix = ".jsonl"
    /\ src = NoFile
    /\ dst = NoFile
    /\ file_state = NoState
    /\ ret = NoRet
    /\ prevRet = NoRet
    /\ lastOp = "init"
    /\ appendOnly = TRUE
    /\ copy_from = 0
    /\ copy_ret = 0
    /\ ParseIdle
    /\ WholeIdle
    /\ ConvIdle
    /\ CycIdle
    /\ pc = "loop"
    /\ shutdown_requested = FALSE
    /\ interval = 1
    /\ indexer \in {"up", "None"}
    /\ inbox \in InboxStarts
    /\ sleep_remaining = 0
    /\ ncycles = 0
    /\ files = <<>>
    /\ discovered = <<>>
    /\ handled = <<>>
    /\ attempt = 0
    /\ archive = {}
    /\ processed_files = [p \in InboxPaths |-> NoRow]
    /\ ts_messages = {}
    /\ ts_conversations = {}
    /\ now = 0
    /\ totals = NoTotals
    /\ pf = NoCall
    /\ seen = [p \in InboxPaths |-> NoSeen]
    /\ ndeliver = 0

NextCycles ==
    \/ LoopCheck \/ ProcessorBegin \/ ProcessorFile \/ ProcessorReturn
    \/ AfterCycle \/ Sleep \/ Deliver \/ Tick

SpecCycles == InitCycles /\ [][NextCycles]_vars

\* a transcript of two records waits in the inbox; once it is archived the
\* collector delivers a file to the same path again
LongTranscript ==
    InboxFile(<<Elem(CCUserA, TRUE), Elem(CCAssistant, TRUE)>>, NoSession, 0)

InitRedeliver ==
    /\ suffix = ".jsonl"
    /\ src = NoFile
    /\ dst = NoFile
    /\ file_state = NoState
    /\ ret = NoRet
    /\ prevRet = NoRet
    /\ lastOp = "init"
    /\ appendOnly = TRUE
    /\ copy_from = 0
    /\ copy_ret = 0
    /\ ParseIdle
    /\ WholeIdle
    /\ ConvIdle
    /\ CycIdle
    /\ pc = "loop"
    /\ shutdown_requested = FALSE
    /\ interval = 1
    /\ indexer \in {"up", "None"}
    /\ inbox = [p \in InboxPaths |-> IF p = ClaudePath THEN LongTranscript ELSE NoInboxFile]
    /\ sleep_remaining = 0
    /\ ncycles = 0
    /\ files = <<>>
    /\ discovered = <<>>
    /\ handled = <<>>
    /\ attempt = 0
    /\ archive = {}
    /\ processed_files = [p \in InboxPaths |-> NoRow]
    /\ ts_messages = {}
    /\ ts_conversations = {}
    /\ now = 0
    /\ totals = NoTotals
    /\ pf = NoCall
    /\ seen = [p \in InboxPaths |-> NoSeen]
    /\ ndeliver = 0

SpecRedeliver == InitRedeliver /\ [][NextCycles]_vars

StartInbox ==
    [p \in InboxPaths |->
        IF p \in {UnknownSourcePath, ClaudePath} THEN StartFile(p)
        ELSE NoInboxFile]

\* run_processor after reset_shutdown()
InitProcessor ==
    /\ suffix = ".jsonl"
    /\ src = NoFile
    /\ dst = NoFile
    /\ file_state = NoState
    /\ ret = NoRet
    /\ prevRet = NoRet
    /\ lastOp = "init"
    /\ appendOnly = TRUE
    /\ copy_from = 0
    /\ copy_ret = 0
    /\ ParseIdle
    /\ WholeIdle
    /\ ConvIdle
    /\ CycIdle
    /\ pc = "connect"
    /\ shutdown_requested = FALSE
    /\ interval \in 1..MaxInterval
    /\ indexer = "None"
    /\ inbox = StartInbox
    /\ sleep_remaining = 0
    /\ ncycles = 0
    /\ files = <<>>
    /\ discovered = <<>>
    /\ handled = <<>>
    /\ attempt = 0
    /\ archive = {}
    /\ processed_files = [p \in InboxPaths |-> NoRow]
    /\ ts_messages = {}
    /\ ts_conversations = {}
    /\ now = 0
    /\ totals = NoTotals
    /\ pf = NoCall
    /\ seen = [p \in InboxPaths |-> NoSeen]
    /\ ndeliver = 0

NextProcessor ==
    \/ Connect \/ LoopCheck \/ ProcessorBegin \/ ProcessorFile \/ ProcessorReturn
    \/ AfterCycle \/ Sleep \/ RequestShutdown \/ Tick

SpecProcessor == InitProcessor /\ [][NextProcessor]_vars

\* main(): the signal handlers are installed and load_config is running;
\* run_processor has not been called yet
InitMain ==
    /\ suffix = ".jsonl"
    /\ src = NoFile
    /\ dst = NoFile
    /\ file_state = NoState
    /\ ret = NoRet
    /\ prevRet = NoRet
    /\ lastOp = "init"
    /\ appendOnly = TRUE
    /\ copy_from = 0
    /\ copy_ret = 0
    /\ ParseIdle
    /\ WholeIdle
    /\ ConvIdle
    /\ CycIdle
    /\ pc = "main"
    /\ shutdown_requested = FALSE
    /\ interval = 1
    /\ indexer = "None"
    /\ inbox = StartInbox
    /\ sleep_remaining = 0
    /\ ncycles = 0
    /\ files = <<>>
    /\ discovered = <<>>
    /\ handled = <<>>
    /\ attempt = 0
    /\ archive = {}
    /\ processed_files = [p \in InboxPaths |-> NoRow]
    /\ ts_messages = {}
    /\ ts_conversations = {}
    /\ now = 0
    /\ totals = NoTotals
    /\ pf = NoCall
    /\ seen = [p \in InboxPaths |-> NoSeen]
    /\ ndeliver = 0

\* main() calls run_processor, whose first statement is reset_shutdown()
RunProcessor ==
    /\ pc = "main"
    /\ shutdown_requested' = FALSE
    /\ pc' = "connect"
    /\ lastOp' = "reset_shutdown"
    /\ UNCHANGED <<collectorVars2, copyVars, parseVars, wholeVars, convVars, cycVars,
                   interval, sleep_remaining, ncycles, files, discovered,
                   handled, attempt, indexer, inbox, archive, processed_files,
                   ts_messages, ts_conversations, now, totals, pf, seen,
                   ndeliver>>

NextMain == RunProcessor \/ NextProcessor

SpecMain == InitMain /\ [][NextMain]_vars

\* the steps by which the daemon's thread moves on between files: the thread
\* keeps running, so such a step that stays possible is eventually taken
\* (a connection attempt ends, time.sleep returns); nothing is assumed about
\* the for loop taking up another file
ProcessorStep ==
    \/ Connect \/ LoopCheck \/ ProcessorBegin \/ ProcessorReturn
    \/ AfterCycle \/ Sleep

SpecProcessorLive == SpecProcessor /\ WF_vars(ProcessorStep)

\* run_collector_cycle: discover_all_sources, synced_count = 0
CollectorBegin ==
    /\ pc = "begin"
    /\ pc' = "cycle"
    /\ files' = discover_all_sources(sources)
    /\ discovered' = discover_all_sources(sources)
    /\ handled' = <<>>
    /\ sync_out' = <<>>
    /\ synced_count' = 0
    /\ lastOp' = "begin"
    /\ UNCHANGED <<suffix, src, dst, file_state, ret, prevRet, appendOnly,
                   copyVars, parseVars, wholeVars, convVars, procVars,
                   shutdown_requested, interval, sleep_remaining, ncycles,
                   sources, outbox, collector_state, nsrcwrites>>

\* one iteration of the loops: the flag is not set, and sync_file runs inside
\* try / except Exception
CollectorFile ==
    /\ pc = "cycle"
    /\ Len(files) > 0
    /\ ~is_shutdown_requested
    /\ \E fault \in Faults :
          LET path == Head(files)
              r == sync_file(sources[path], outbox[path], collector_state[path], fault)
          IN  /\ outbox' = [outbox EXCEPT ![path] = r.dest]
              /\ collector_state' = [collector_state EXCEPT ![path] = r.state]
              /\ synced_count' = count_synced(synced_count, r.out)
              /\ sync_out' = Append(sync_out, r.out)
              /\ handled' = Append(handled, path)
              /\ files' = Tail(files)
    /\ lastOp' = "file"
    /\ UNCHANGED <<suffix, src, dst, file_state, ret, prevRet, appendOnly,
                   copyVars, parseVars, wholeVars, convVars, procVars, pc,
                   shutdown_requested, interval, sleep_remaining, ncycles,
                   discovered, sources, nsrcwrites>>

\* the loops end, or the flag is set: return synced_count
CollectorReturn ==
    /\ pc = "cycle"
    /\ Len(files) = 0 \/ is_shutdown_requested
    /\ pc' = "after"
    /\ lastOp' = IF Len(files) = 0 THEN "cycle_done" ELSE "cycle_break"
    /\ UNCHANGED <<suffix, src, dst, file_state, ret, prevRet, appendOnly,
                   copyVars, parseVars, wholeVars, convVars, procVars,
                   shutdown_requested, interval, sleep_remaining, ncycles,
                   files, discovered, handled, sources, outbox,
                   collector_state, synced_count, sync_out, nsrcwrites>>

\* the assistants write, truncate or remove their transcripts
SourceWrite ==
    /\ pc # "stopped"
    /\ nsrcwrites < MaxSourceWrites
    /\ \E path \in SourceFiles, f \in {NoFile} \cup {File(c) : c \in BoundedSeq(ByteVals, 1)} :
          /\ f # sources[path]
          /\ sources' = [sources EXCEPT ![path] = f]
    /\ nsrcwrites' = nsrcwrites + 1
    /\ lastOp' = "source_write"
    /\ UNCHANGED <<suffix, src, dst, file_state, ret, prevRet, appendOnly,
                   copyVars, parseVars, wholeVars, convVars, procVars, pc,
                   shutdown_requested, interval, sleep_remaining, ncycles,
                   files, discovered, handled, outbox, collector_state,
                   synced_count, sync_out>>

\* run_collector after reset_shutdown(), with whatever the assistants wrote
InitCollector ==
    /\ suffix \in {".jsonl", ".json"}
    /\ src = NoFile
    /\ dst = NoFile
    /\ file_state = NoState
    /\ ret = NoRet
    /\ prevRet = NoRet
    /\ lastOp = "init"
    /\ appendOnly = TRUE
    /\ copy_from = 0
    /\ copy_ret = 0
    /\ ParseIdle
    /\ WholeIdle
    /\ ConvIdle
    /\ ProcIdle
    /\ pc = "loop"
    /\ shutdown_requested = FALSE
    /\ interval = 2
    /\ sleep_remaining = 0
    /\ ncycles = 0
    /\ files = <<>>
    /\ discovered = <<>>
    /\ handled = <<>>
    /\ sources \in [SourceFiles -> {NoFile, File(<<1>>)}]
    /\ outbox = [p \in SourceFiles |-> NoFile]
    /\ collector_state = [p \in SourceFiles |-> NoState]
    /\ synced_count = 0
    /\ sync_out = <<>>
    /\ nsrcwrites = 0

NextCollector ==
    \/ LoopCheck \/ CollectorBegin \/ CollectorFile \/ CollectorReturn
    \/ AfterCycle \/ Sleep \/ RequestShutdown \/ SourceWrite

SpecCollector == InitCollector /\ [][NextCollector]_vars

\* ------------------------------- _update_conversation_from_messages alone
MaxBatch == 2
MaxConvTs == 1

\* n characters c
Rep(c, n) == [i \in 1..n |-> c]

\* message contents around the two cuts: text with a blank in front, blank
\* text, text of exactly the title length, longer text with a blank as its
\* last kept character, and text longer than the preview
ConvContents ==
    {<<" ", "a">>, <<" ">>, Rep("x", TitleLen),
     Rep("x", TitleLen - 1) \o <<" ", "y">>, Rep("x", ConvPreviewLen + 1)}

\* the fields of CanonicalMessage the function reads
ConvMessages ==
    [source : {"claude_code"}, machine_id : {"m"}, project : {"p"},
     conversation_id : {"c1", "c2"}, role : {"user", "assistant"},
     content : ConvContents, ts : 0..MaxConvTs]

\* the function is called with one parsed batch
InitConversation ==
    /\ suffix = ".jsonl"
    /\ src = NoFile
    /\ dst = NoFile
    /\ file_state = NoState
    /\ ret = NoRet
    /\ prevRet = NoRet
    /\ lastOp = "init"
    /\ appendOnly = TRUE
    /\ copy_from = 0
    /\ copy_ret = 0
    /\ ParseIdle
    /\ WholeIdle
    /\ LoopIdle
    /\ ProcIdle
    /\ CycIdle
    /\ batch \in BoundedSeq(ConvMessages, MaxBatch)
    /\ upserted = {}
    /\ ids = <<>>

\* every conversation of the batch is built and given to update_conversation
UpdateConversations ==
    /\ lastOp = "init"
    /\ upserted' = ConversationsOf(batch)
    /\ lastOp' = "update_conversation"
    /\ UNCHANGED <<collectorVars2, copyVars, parseVars, wholeVars, loopVars,
                   procVars, cycVars, batch, ids>>

NextConversation == UpdateConversations

SpecConversation == InitConversation /\ [][NextConversation]_vars

\* ------------------------------- message ids as text (models.py, base.py)

\* the characters of the decimal digits
DigitChar(d) == <<"0", "1", "2", "3", "4", "5", "6", "7", "8", "9">>[d + 1]

\* str(ts) inside the f-string, for a non-negative integer
RECURSIVE Digits(_)
Digits(n) ==
    IF n < 10 THEN <<DigitChar(n)>>
    ELSE Digits(n \div 10) \o <<DigitChar(n % 10)>>

\* the f-string "{a}:{b}:{c}:{d}:{e}" of both id functions
RECURSIVE JoinColon(_)
JoinColon(parts) ==
    IF Len(parts) = 0 THEN <<>>
    ELSE IF Len(parts) = 1 THEN Head(parts)
    ELSE Head(parts) \o <<":">> \o JoinColon(Tail(parts))

\* generate_message_id without the timestamp part
generate_message_id_no_ts(source, mid, conversation_id, ts, content) ==
    JoinColon(<<source, mid, conversation_id, content_hash(content)>>)

\* generate_message_id (parsers/base.py)
generate_message_id(source, mid, conversation_id, ts, content) ==
    JoinColon(<<source, mid, conversation_id, Digits(ts), content_hash(content)>>)

\* CanonicalMessage.id (models.py)
CanonicalMessage_id(m) ==
    JoinColon(<<m.source, m.machine_id, m.conversation_id, Digits(m.ts),
                content_hash(m.content)>>)

\* the values of the text fields: plain, and with the separator inside
IdNames == {<<"a">>, <<"a", ":", "b">>}
\* one-digit and two-digit timestamps
IdTimestamps == {1, 11}
IdContents == {<<"h">>, <<"h", "i">>}

IdMessages ==
    [source : IdNames, machine_id : IdNames, conversation_id : IdNames,
     ts : IdTimestamps, content : IdContents,
     role : {"user", "assistant"}, raw_offset : {0, 1}]

\* two messages whose ids are taken
InitIds ==
    /\ suffix = ".jsonl"
    /\ src = NoFile
    /\ dst = NoFile
    /\ file_state = NoState
    /\ ret = NoRet
    /\ prevRet = NoRet
    /\ lastOp = "init"
    /\ appendOnly = TRUE
    /\ copy_from = 0
    /\ copy_ret = 0
    /\ ParseIdle
    /\ WholeIdle
    /\ LoopIdle
    /\ ProcIdle
    /\ CycIdle
    /\ batch \in [1..2 -> IdMessages]
    /\ upserted = {}
    /\ ids = <<>>

\* both id functions applied to every message of the batch
GenerateIds ==
    /\ lastOp = "init"
    /\ ids' = [k \in 1..Len(batch) |->
                 [id  |-> CanonicalMessage_id(batch[k]),
                  gen |-> generate_message_id(batch[k].source, batch[k].machine_id,
                                              batch[k].conversation_id, batch[k].ts,
                                              batch[k].content)]]
    /\ lastOp' = "ids"
    /\ UNCHANGED <<collectorVars2, copyVars, parseVars, wholeVars, loopVars,
                   procVars, cycVars, batch, upserted>>

NextIds == GenerateIds

SpecIds == InitIds /\ [][NextIds]_vars

\* ================================================================ claims

\* C1: needs_sync(path, state) classifies in this order: a missing path is
\* (False, file_not_found, ""); no recorded state is (True, new_file); a
\* .jsonl path is new_bytes when size > last_offset, file_reset when size <
\* last_offset, content_changed when the sizes agree and the hash differs,
\* else up_to_date; any other path is hash_changed iff the hash differs, else
\* up_to_date. For every existing file the third component is its SHA-256.
C1_NeedsSyncTable ==
    LET d    == needs_sync(src, file_state)
        size == Len(src.bytes)
        h    == compute_sha256(src.bytes)
        Is(n, r) == d.needs = n /\ d.reason = r
    IN  /\ ~src.exists => Is(FALSE, "file_not_found") /\ d.hash = <<>>
        /\ src.exists => d.hash = h
        /\ src.exists /\ ~file_state.known => Is(TRUE, "new_file")
        /\ src.exists /\ file_state.known /\ is_jsonl =>
              /\ size > file_state.last_offset => Is(TRUE, "new_bytes")
              /\ size < file_state.last_offset => Is(TRUE, "file_reset")
              /\ size = file_state.last_offset /\ h # file_state.sha256
                    => Is(TRUE, "content_changed")
              /\ size = file_state.last_offset /\ h = file_state.sha256
                    => Is(FALSE, "up_to_date")
        /\ src.exists /\ file_state.known /\ ~is_jsonl =>
              /\ h # file_state.sha256 => Is(TRUE, "hash_changed")
              /\ h = file_state.sha256 => Is(FALSE, "up_to_date")

\* a .jsonl file that grew and whose prefix was rewritten: new_bytes wins
C1_Witness ==
    /\ is_jsonl /\ src.exists /\ file_state.known
    /\ Len(src.bytes) > file_state.last_offset
    /\ file_state.last_offset > 0
    /\ ~IsPrefix(BytesFrom(file_state.sha256, 1), src.bytes)
    /\ needs_sync(src, file_state).reason = "new_bytes"

\* C2: for a .jsonl source that is only ever appended to, after every sync
\* the destination's bytes equal the source's bytes and the recorded
\* last_offset is the number of source bytes.
C2_AppendOnlyMirror ==
    (is_jsonl /\ appendOnly /\ lastOp = "sync" /\ src.exists) =>
        /\ dst.bytes = src.bytes
        /\ file_state.known
        /\ file_state.last_offset = Len(src.bytes)

\* the source was synced, appended to, and synced again
C2_Witness ==
    /\ is_jsonl /\ appendOnly /\ lastOp = "sync"
    /\ ret.synced /\ ret.reason = "new_bytes"
    /\ Len(src.bytes) = MaxLen

\* C3: a .jsonl sync with reason new_file, file_reset or content_changed
\* leaves the destination with exactly the source's current bytes, nothing
\* of the old destination remaining; with reason new_bytes it appends source
\* bytes [last_offset, size) and changes nothing before them.
C3_RestartOrAppend ==
    [][ (lastOp' = "sync" /\ is_jsonl /\ ret'.synced) =>
          /\ ret'.reason \in {"new_file", "file_reset", "content_changed"} =>
                dst'.bytes = src.bytes
          /\ ret'.reason = "new_bytes" =>
                dst' = File(dst.bytes \o BytesFrom(src.bytes, file_state.last_offset))
      ]_vars

\* an in-place rewrite of equal length was synced over a non-empty destination
C3_Witness ==
    /\ is_jsonl /\ lastOp = "sync" /\ ret.synced
    /\ ret.reason = "content_changed"
    /\ Len(dst.bytes) > 1

\* C4: for a snapshot (non-.jsonl) file every sync that decides to sync
\* overwrites the destination with the source's bytes; afterwards the
\* destination equals the source, the stored sha256 is the hash of those
\* bytes and last_offset is the file size.
C4_SnapshotOverwrite ==
    (~is_jsonl /\ lastOp = "sync" /\ ret.synced) =>
        /\ dst = File(src.bytes)
        /\ file_state.known
        /\ file_state.sha256 = compute_sha256(src.bytes)
        /\ file_state.last_offset = Len(src.bytes)
        /\ ret.reason \in {"new_file", "hash_changed"}

\* a changed snapshot was synced over an earlier copy
C4_Witness ==
    /\ ~is_jsonl /\ lastOp = "sync" /\ ret.synced
    /\ ret.reason = "hash_changed"
    /\ Len(src.bytes) > 0

\* C5: when the source is not modified between two consecutive sync_file
\* calls and the first synced, the second returns False and changes neither
\* the destination nor the stored state.
C5_SecondSyncIsNoOp ==
    [][ (lastOp = "sync" /\ ret.synced /\ lastOp' = "sync") =>
          /\ ~ret'.synced
          /\ dst' = dst
          /\ file_state' = file_state
      ]_vars

\* a second sync_file ran right after a successful one
C5_Witness ==
    /\ lastOp = "sync" /\ prevRet.synced
    /\ ~ret.synced /\ ret.reason = "up_to_date"
    /\ Len(src.bytes) > 0

\* C6: for a .jsonl file last_offset never decreases from one sync to the
\* next except in a sync that restarts from offset 0, and a source whose size
\* is below the stored last_offset is recopied whole from offset 0.
C6_OffsetMonotone ==
    [][ (lastOp' = "sync" /\ is_jsonl /\ file_state.known) =>
          /\ \/ file_state'.last_offset >= file_state.last_offset
             \/ /\ ret'.synced
                /\ ret'.reason \in {"file_reset", "content_changed", "new_file"}
          /\ (src.exists /\ Len(src.bytes) < file_state.last_offset) =>
                /\ ret'.synced
                /\ dst'.bytes = src.bytes
                /\ file_state'.last_offset = Len(src.bytes)
      ]_vars

\* a truncated file was recopied and the offset went down to its size
C6_Witness ==
    /\ is_jsonl /\ lastOp = "sync" /\ ret.synced
    /\ ret.reason = "file_reset"
    /\ file_state.last_offset > 0
    /\ file_state.last_offset < MaxLen

HasContent(c) ==
    \/ c.t = "str" /\ Len(c.s) > 0
    \/ c.t = "list" /\ \E k \in DOMAIN c.blocks : Len(c.blocks[k].text) > 0

WellFormedRecord(p, b) ==
    /\ b.kind = "object"
    /\ b.inner = "object"
    /\ HasContent(b.content)
    /\ IF p = "claude_code"
       THEN b.type \in {"user", "assistant"} /\ b.role \in {"user", "assistant"}
       ELSE \/ /\ b.type = "response_item" /\ b.ptype = "message"
               /\ b.role \in {"user", "assistant", "developer", "system"}
            \/ /\ b.type = "event_msg"
               /\ b.ptype \in {"user_message", "agent_message"}
               /\ b.content.t = "str"

SeqRange(q) == {q[k] : k \in DOMAIN q}

\* what a message says and where it was read, apart from the session fields
Core(m, shift) ==
    [role |-> m.role, content |-> m.content, ts |-> m.ts,
     raw_offset |-> m.raw_offset + shift]

\* the second parse call of a file whose first call (from offset 0) returned,
\* with only well-formed whole lines appended in between
C8_Scenario ==
    /\ lastOp = "parse" /\ nparse = 2
    /\ ~first_res.raised
    /\ \A k \in DOMAIN parse_res.since :
          parse_res.since[k].nl /\ WellFormedRecord(parser, parse_res.since[k].body)

C8_Resumption ==
    LET k     == Len(parse_res.since)
        alone == parse(parser, parse_res.since, 0)
    IN  /\ C8_Scenario =>
           /\ ~parse_res.raised
           /\ parse_res.from = first_res.new_offset
           /\ Len(parse_res.messages) = k
           /\ Len(alone.messages) = k
           /\ \A i \in 1..k :
                 Core(parse_res.messages[i], 0) = Core(alone.messages[i], parse_res.from)
           /\ parse_res.new_offset = FileSize(pfile)
           /\ k = 0 => parse_res.new_offset = first_res.new_offset
        /\ (lastOp = "parse" /\ ~parse_res.raised) =>
           /\ parse_res.new_offset = FileSize(pfile)
           /\ \A l \in SeqRange(read_lines(pfile, parse_res.from)) :
                 LineValue(l.bodies).kind = "invalid" =>
                    \A m \in SeqRange(parse_res.messages) : m.raw_offset # l.start

\* C8 as stated: for the line-delimited parsers, parsing from offset 0 and
\* then from the returned offset, after k >= 0 well-formed records were
\* appended as whole lines, yields exactly the k appended records' messages
\* (none and an unchanged offset when k = 0), none sharing an id with a
\* message of the first call; malformed lines yield no message and are
\* consumed by the returned offset.
C8_NoSharedId ==
    /\ C8_Resumption
    /\ C8_Scenario =>
          \A m \in SeqRange(parse_res.messages), n \in SeqRange(first_res.messages) :
              MsgId(m) # MsgId(n)

\* C8 amended: as stated, except that the messages of the second call are
\* distinct from those of the first by position (raw_offset), not by id: an
\* appended record that repeats the conversation, the timestamp to the second
\* and the content of an earlier record has that record's id.
C8_NoSharedOffset ==
    /\ C8_Resumption
    /\ C8_Scenario =>
          \A m \in SeqRange(parse_res.messages), n \in SeqRange(first_res.messages) :
              /\ m.raw_offset # n.raw_offset
              /\ MsgId(m) = MsgId(n) =>
                    /\ m.ts = n.ts /\ m.content = n.content
                    /\ m.conversation_id = n.conversation_id

\* after a malformed line and a record, a record with the same second and
\* the same content was appended and parsed from the returned offset
C8_Witness ==
    /\ C8_Scenario
    /\ Len(parse_res.since) >= 1
    /\ \E l \in SeqRange(read_lines(pfile, 0)) : LineValue(l.bodies).kind = "invalid"
    /\ \E m \in SeqRange(parse_res.messages), n \in SeqRange(first_res.messages) :
          MsgId(m) = MsgId(n)

\* C10: a line-delimited parser never raises because of the content of one
\* line: such a line yields no message and every later well-formed line of
\* the file is still parsed and returned.
C10_NeverRaisesOnALine ==
    lastOp = "parse" =>
        /\ ~parse_res.raised
        /\ \A l \in SeqRange(read_lines(pfile, parse_res.from)) :
              (Len(l.bodies) = 1 /\ WellFormedRecord(parser, l.bodies[1])) =>
                  \E m \in SeqRange(parse_res.messages) : m.raw_offset = l.start

\* ---- process_file: what a call that parsed its file leaves behind
ArchivedNow(path, f, time) == ArchiveEntry(DateOf(time), path, f) \in archive

\* the offset row and the archive step of the last call, and where it started
C12_OffsetAndArchive ==
    (lastOp = "file" /\ pf.parsed) =>
        /\ processed_files[pf.path].known
        /\ processed_files[pf.path].last_offset = pf.new_offset
        /\ pf.stable = is_file_stable(pf.file_before, now)
        /\ pf.result.archived = (IF pf.stable /\ pf.ao = "ok" THEN 1 ELSE 0)
        /\ (pf.stable /\ pf.ao = "ok") =>
              /\ ~inbox[pf.path].exists
              /\ ArchivedNow(pf.path, pf.file_before, now)
        /\ pf.prev.valid => pf.from = pf.prev.new_offset

\* C12 as stated: whenever the parser returns, new_offset is written to the
\* processing state and the stability/archive step runs, whatever indexing
\* did; a later process_file call for the same path starts from new_offset
\* and does not parse those records again.
C12_NeverParsedAgain ==
    /\ C12_OffsetAndArchive
    /\ (lastOp = "file" /\ pf.parsed /\ pf.prev.valid) =>
          SeqRange(pf.messages) \cap SeqRange(pf.prev.messages) = {}

\* C12 amended: as stated, except that only a line-delimited transcript is
\* resumed: the later call returns no record below the stored offset. A
\* whole-file session is parsed again in full by every call while it stays
\* in the inbox, and returns the same messages again.
C12_NeverParsedAgainByLine ==
    /\ C12_OffsetAndArchive
    /\ (lastOp = "file" /\ pf.parsed /\ pf.prev.valid) =>
          IF detect_source_from_path(pf.path) \in LineParsers
          THEN /\ SeqRange(pf.messages) \cap SeqRange(pf.prev.messages) = {}
               /\ \A m \in SeqRange(pf.messages) : m.raw_offset >= pf.prev.new_offset
          ELSE pf.messages = pf.prev.messages

\* the import raised for a transcript that was parsed before and has grown:
\* the call started at the stored offset, returned the new record, and the
\* file was archived
C12_Witness ==
    /\ lastOp = "file" /\ pf.parsed /\ pf.prev.valid
    /\ pf.path = ClaudePath
    /\ pf.indexing = "raise"
    /\ pf.from > 0
    /\ Len(pf.messages) > 0
    /\ pf.new_offset > pf.from
    /\ pf.result.archived = 1


\* the Claude Code transcript holds a line that makes the parser raise when
\* it is read from the stored offset
ClaudeRaises ==
    /\ inbox[ClaudePath].exists
    /\ parse_path("claude_code", inbox[ClaudePath],
                  get_last_offset(processed_files[ClaudePath])).raised

\* C13: run_processor_cycle handles every discovered file once per cycle:
\* a file whose parsing, indexing or archiving raised does not end the
\* cycle, the files after it are still handled, in order, and the cycle
\* returns after the last one with every file counted.
C13_EveryFileOnce ==
    /\ handled \o files = discovered
    /\ \A i, j \in DOMAIN handled : handled[i] = handled[j] => i = j
    /\ pc \in {"cycle", "after"} => totals.files = Len(handled)
    /\ lastOp = "cycle_done" => handled = discovered /\ totals.files = Len(discovered)
    /\ (lastOp = "file" /\ (~pf.parsed \/ pf.indexing = "raise" \/ pf.ao = "raise")) =>
          pc = "cycle" /\ files = SubSeq(discovered, Len(handled) + 1, Len(discovered))

\* a cycle returned after the transcript's parse raised and, after it, the
\* session was parsed and its import raised
C13_Witness ==
    /\ lastOp = "cycle_done"
    /\ discovered = <<ClaudePath, GeminiPath>>
    /\ handled = discovered
    /\ ClaudeRaises
    /\ pf.path = GeminiPath /\ pf.parsed /\ pf.indexing = "raise"
    /\ totals.files = 2 /\ totals.messages > 0

\* the call could not obtain parsed output: no source in the path, no parser
\* for the source, or a parser that raised
NoParsedOutput ==
    \/ pf.path = OrphanPath
    \/ pf.path = UnknownSourcePath
    \/ /\ pf.path \in {ClaudePath, GeminiPath}
       /\ parse_path(detect_source_from_path(pf.path), pf.file_before,
                     IF pf.row_before.known THEN pf.row_before.last_offset ELSE 0).raised

\* C15: if process_file cannot obtain parsed output for a file (no source
\* detected, no parser registered, or parser.parse raises) it returns zero
\* counts and changes nothing: the row of the path is neither written nor
\* modified, and the file is not archived and stays in the inbox.
C15_NoOutputNoChange ==
    (lastOp = "file" /\ NoParsedOutput) =>
        /\ ~pf.parsed
        /\ pf.result = NoResult
        /\ processed_files[pf.path] = pf.row_before
        /\ inbox[pf.path] = pf.file_before
        /\ inbox[pf.path].exists
        /\ archive = pf.archive_before

\* the parser raised on a stable transcript that already has a row: the row
\* keeps its offset and the file stays in the inbox
C15_Witness ==
    /\ lastOp = "file" /\ pf.path = ClaudePath /\ NoParsedOutput
    /\ pf.row_before.known /\ pf.row_before.last_offset > 0
    /\ is_file_stable(pf.file_before, now)
    /\ \E p \in {OrphanPath, UnknownSourcePath} :
          p \in SeqRange(handled) /\ ~processed_files[p].known /\ inbox[p].exists

\* the archive step of the last process_file call
C16_ArchiveStep ==
    lastOp = "file" =>
        /\ (archive # pf.archive_before \/ inbox[pf.path] # pf.file_before) =>
              pf.result.archived = 1
        /\ pf.result.archived = 1 =>
              /\ now - pf.file_before.mtime >= stability_seconds
              /\ ArchivedNow(pf.path, pf.file_before, now)
              /\ ~inbox[pf.path].exists
              /\ processed_files[pf.path].known
              /\ processed_files[pf.path].last_offset = pf.new_offset

\* no step removes a row of the processing state or of the sync state
RowsKept ==
    /\ \A p \in InboxPaths : processed_files[p].known => processed_files'[p].known
    /\ \A p \in SourceFiles : collector_state[p].known => collector_state'[p].known
    /\ file_state.known => file_state'.known

C14_CountOfTrue ==
    /\ handled \o files = discovered
    /\ Len(sync_out) = Len(handled)
    /\ synced_count = CountTrue(sync_out)
    /\ lastOp = "cycle_done" => handled = discovered
    /\ (lastOp = "file" /\ sync_out[Len(sync_out)] = "raise") =>
          pc = "cycle" /\ files = SubSeq(discovered, Len(handled) + 1, Len(discovered))

\* a cycle returned 1 after one sync raised, a later one returned True and
\* another returned False
C14_Witness ==
    /\ lastOp = "cycle_done"
    /\ Len(sync_out) = 3
    /\ synced_count = 1
    /\ \E i, j \in DOMAIN sync_out : i < j /\ sync_out[i] = "raise" /\ sync_out[j] = "true"
    /\ \E i \in DOMAIN sync_out : sync_out[i] = "false"

\* what the loops of both cycles have done and counted so far
CycleProgress ==
    <<handled, sync_out, synced_count, totals, outbox, collector_state,
      processed_files, inbox, archive, ts_messages, ts_conversations>>

\* the cycle was left by the break on the flag
C17_BreakState ==
    lastOp = "cycle_break" =>
        /\ shutdown_requested
        /\ pc = "after"
        /\ files # <<>>
        /\ handled \o files = discovered
        /\ synced_count = CountTrue(sync_out)
        /\ Len(handled) = totals.files + Len(sync_out)

\* C17: once request_shutdown has been called no further file is synced or
\* processed in the current cycle: the flag is checked before each file, so
\* from the moment it is set the cycle changes nothing more, and it returns
\* the counts accumulated up to that file.
C17_NoFileAfterShutdown ==
    /\ [](C17_BreakState)
    /\ [][(shutdown_requested /\ pc \in {"cycle", "after"}) =>
             UNCHANGED CycleProgress]_vars

\* the collector's cycle was left by the break with one file synced and
\* counted and files still to do
C17_Witness ==
    /\ lastOp = "cycle_break"
    /\ Len(handled) >= 1
    /\ Len(files) >= 1
    /\ synced_count >= 1


\* the steps of the main loop once the flag is set, and of the sleep loop
C18_LoopSteps ==
    /\ shutdown_requested =>
          /\ ncycles' = ncycles
          /\ sleep_remaining' = sleep_remaining
          /\ pc' # pc =>
                /\ pc = "sleep" => pc' = "loop"
                /\ pc = "loop" => pc' = "stopped"
                /\ pc = "after" => pc' = "stopped"
                /\ pc = "cycle" => pc' = "after"
                /\ pc' = "begin" => pc = "loop" /\ FALSE
    /\ (pc = "sleep" /\ pc' = "sleep" /\ ~shutdown_requested') =>
          /\ sleep_remaining' < sleep_remaining
          /\ sleep_remaining - sleep_remaining' <= 2
          /\ sleep_remaining' >= 0

\* C18: if request_shutdown() is called while the daemon is inside its loop
\* the daemon terminates: it starts no new cycle, it leaves the inter-cycle
\* sleep at the next increment of at most one second, and the sleep loop
\* terminates for every positive interval.
C18_ShutdownTerminates ==
    /\ (shutdown_requested ~> pc = "stopped")
    /\ (pc = "sleep" ~> pc # "sleep")
    /\ [][C18_LoopSteps]_vars

\* the daemon stopped out of a sleep of three increments' worth after the
\* first increment: the flag was set while it slept
C18_Witness ==
    /\ pc = "stopped"
    /\ shutdown_requested
    /\ lastOp = "loop"
    /\ interval = 3
    /\ sleep_remaining = 1
    /\ ncycles = 1


\* C19: run_processor tries to connect to the index at most 10 times and
\* stops at the first success; when all 10 attempts failed it enters the
\* loop with indexer = None, and then every cycle still parses the files,
\* writes their offsets and archives the stable ones, with 0 indexed.
C19_ConnectAtMostTen ==
    /\ attempt <= MaxAttempts
    /\ pc = "connect" => indexer = "None"
    /\ pc # "connect" => (indexer = "up" \/ attempt = MaxAttempts)
    /\ indexer = "up" => pc # "connect" /\ attempt >= 1
    /\ indexer = "None" =>
          /\ totals.indexed = 0
          /\ ts_messages = {} /\ ts_conversations = {}
          /\ (lastOp = "file" /\ pf.path = ClaudePath) =>
                /\ pf.parsed
                /\ pf.indexing = "skipped"
                /\ pf.result.messages = Len(pf.messages)
                /\ pf.result.indexed = 0
                /\ processed_files[pf.path].known
                /\ processed_files[pf.path].last_offset = pf.new_offset
                /\ (pf.stable /\ pf.ao = "ok") =>
                      pf.result.archived = 1 /\ ArchivedNow(pf.path, pf.file_before, now)

\* after ten failed attempts a cycle parsed the transcript, wrote its offset
\* and archived it
C19_Witness ==
    /\ attempt = MaxAttempts
    /\ indexer = "None"
    /\ lastOp = "file" /\ pf.path = ClaudePath
    /\ pf.result.messages > 0
    /\ pf.result.archived = 1
    /\ processed_files[ClaudePath].last_offset > 0


\* the messages of conversation c in the batch, in batch order
OfConversation(c) == SelectSeq(batch, LAMBDA m : m.conversation_id = c)

\* the first n characters of the text, then "..." when the text is longer
FirstChars(content, n) ==
    Take(content, n) \o (IF Len(content) > n THEN <<"...">> ELSE <<>>)

\* the first n characters of the text with the blanks at both ends of that
\* cut removed, then "..." when the text is longer
FirstCharsStripped(content, n) ==
    Strip(Take(content, n)) \o (IF Len(content) > n THEN <<"...">> ELSE <<>>)

\* the first message of ms that satisfies P and has the least (Least) or the
\* greatest ts among those that do; ms has such a message
FirstByTs(ms, P(_), Least) ==
    LET k == CHOOSE i \in DOMAIN ms :
                 /\ P(ms[i])
                 /\ \A j \in DOMAIN ms : P(ms[j]) =>
                        /\ IF Least THEN ms[i].ts <= ms[j].ts ELSE ms[i].ts >= ms[j].ts
                        /\ j < i => ms[j].ts # ms[i].ts
    IN  ms[k]

IsUser(m) == m.role = "user"
IsAny(m) == TRUE

\* count, timestamps and id of the conversation document d of messages ms
C20_Aggregate(d, ms) ==
    /\ d.message_count = Len(ms)
    /\ \A k \in DOMAIN ms : d.first_ts <= ms[k].ts /\ ms[k].ts <= d.last_ts
    /\ \E k \in DOMAIN ms : d.first_ts = ms[k].ts
    /\ \E k \in DOMAIN ms : d.last_ts = ms[k].ts
    /\ d.id = <<ms[1].source, ms[1].machine_id, d.conversation_id>>

TitleFrom(m) == FirstCharsStripped(m.content, TitleLen)

CanonicalRoles == {"user", "assistant", "system", "tool"}

\* C11: every message a parser emits has its role in {user, assistant,
\* system, tool}; a record whose source role is outside the parser's mapping
\* (an arbitrary string in message.role of a Claude Code line) yields no
\* message.
C11_CanonicalRoles ==
    lastOp = "parse" =>
        \A m \in SeqRange(parse_res.messages) : m.role \in CanonicalRoles

\* two parse calls of the same unmodified session file, with any offsets
C9_Reparse == lastOp = "wparse" /\ wprev.valid /\ ~wres.raised

C9_SameIds ==
    C9_Reparse =>
        /\ ~wprev.raised
        /\ wres.messages = wprev.messages
        /\ Ids(wres.messages) = Ids(wprev.messages)
        /\ wres.new_offset = wprev.new_offset
        /\ windex = wres.index

C26_DestEqualsSource ==
    (lastOp = "sync" /\ ret.synced /\ is_jsonl) => dst.bytes = src.bytes

\* C23: sync state is committed per file, so a crash leaves at most the
\* file in flight with a stale row; after the restart the next sync of that
\* file, also when the crash fell between the write to the destination and
\* the commit, brings the destination to exactly the source's bytes (here
\* for a source that was only ever appended to).
C23_ExactAfterRestart ==
    (lastOp = "sync" /\ ret.synced /\ is_jsonl /\ appendOnly) => dst.bytes = src.bytes

\* the ids of the indexed messages of the conversation of document d
IndexedOf(d) == {i \in ts_messages : <<i[1], i[2], i[3]>> = d.id}

\* C21: after any sequence of cycles the conversation document of a
\* (source, machine_id, conversation_id) triple has message_count, first_ts
\* and last_ts derived from all messages of the triple ingested so far: it
\* counts at least the messages of the triple that are in the index, and
\* its timestamps span theirs.
C21_CountsAllIngested ==
    \A d \in ts_conversations :
        /\ d.message_count >= Cardinality(IndexedOf(d))
        /\ \A i \in IndexedOf(d) : d.first_ts <= i[4] /\ i[4] <= d.last_ts

\* the five fields the id is made of
IdFields == {"source", "machine_id", "conversation_id", "ts", "content"}

\* the fields among the five on which two messages differ
Differing(a, b) == {f \in IdFields : a[f] # b[f]}

\* C22: a message's id is a pure function of (source, machine_id,
\* conversation_id, ts, content) and of nothing else: two messages equal on
\* the five have the same id whatever their role and raw_offset, changing
\* exactly one of the five changes the id, and CanonicalMessage.id equals
\* generate_message_id of the same five fields.
C22_IdOfFiveFields ==
    lastOp = "ids" =>
        /\ \A k \in 1..2 : ids[k].id = ids[k].gen
        /\ Differing(batch[1], batch[2]) = {} => ids[1].id = ids[2].id
        /\ Cardinality(Differing(batch[1], batch[2])) = 1 => ids[1].id # ids[2].id

\* two messages that differ in role and raw_offset only, and two that differ
\* in one field whose value holds the separator
C22_Witness ==
    /\ lastOp = "ids"
    /\ batch[1].role # batch[2].role
    /\ batch[1].raw_offset # batch[2].raw_offset
    /\ Differing(batch[1], batch[2]) = {}
    /\ batch[1].source = <<"a", ":", "b">>
    /\ ids[1].id = ids[2].gen

\* C24: in a Codex file whose first line is a session_meta event, every
\* message of every parse call, a call resuming from a stored offset past that
\* line included, carries the metadata's id as conversation_id and the
\* metadata's cwd as project.
C24_MetaSurvivesResume ==
    (parser = "codex" /\ lastOp = "parse" /\ Len(pfile) > 0
        /\ pfile[1] = Elem(CXMeta, TRUE)) =>
        \A k \in DOMAIN parse_res.messages :
            /\ parse_res.messages[k].conversation_id = CXMeta.sid
            /\ parse_res.messages[k].project = CXMeta.cwd

\* C25: when the batch holds no user-role message of a conversation, the
\* title is made of the earliest message by timestamp of any role (first 100
\* characters, ellipsized), whatever the order of the messages in the batch.
C25_FallbackEarliest ==
    lastOp = "update_conversation" =>
        \A d \in upserted :
            LET ms == OfConversation(d.conversation_id)
            IN  (\A k \in DOMAIN ms : ms[k].role # "user") =>
                    \E k \in DOMAIN ms :
                        /\ \A j \in DOMAIN ms : ms[k].ts <= ms[j].ts
                        /\ d.title = TitleFrom(ms[k])

\* the number of records of the file: whole lines and completed pieces
RecordsWritten ==
    Cardinality({k \in DOMAIN pfile : pfile[k].nl})

\* C27: across appends and incremental parse calls that each start at the
\* offset the previous one returned, every well-formed record is emitted
\* exactly once, also when a parse call ran while the file ended in the middle
\* of a record whose rest was appended later: once the parses have read a
\* file that ends with a newline, they emitted as many messages as the file
\* has records.
C27_EveryRecordOnce ==
    (lastOp = "parse" /\ nparse = 2 /\ ~EndsInHead
        /\ ~first_res.raised /\ ~parse_res.raised) =>
        Len(first_res.messages) + Len(parse_res.messages) = RecordsWritten

\* C28: when process_file runs on a line-delimited inbox file that is
\* smaller than the last_offset stored for its path, the records of the file
\* are parsed and the stored offset afterwards is the size of the file.
C28_ShorterFileParsed ==
    (lastOp = "file" /\ pf.path = ClaudePath /\ pf.parsed
        /\ pf.row_before.known
        /\ FileSize(pf.file_before.lines) < pf.row_before.last_offset) =>
        /\ pf.messages = parse("claude_code", pf.file_before.lines, 0).messages
        /\ pf.new_offset = FileSize(pf.file_before.lines)
        /\ processed_files[pf.path].last_offset = FileSize(pf.file_before.lines)

\* C29: a shutdown request is never lost: once request_shutdown() has been
\* called after the signal handlers were installed, also before the run
\* function reached its loop, the flag stays set until the daemon stops.
C29_RequestNeverLost == [][shutdown_requested => shutdown_requested']_vars

\* C30: when a .jsonl source is appended to while sync_file runs, the row
\* written afterwards is consistent with the bytes copied: its sha256 and size
\* are those of the content that last_offset covers, and a source that was
\* only ever appended to is never classified content_changed or file_reset.
C30_RowMatchesCopied ==
    (lastOp = "sync" /\ is_jsonl /\ appendOnly) =>
        /\ ret.reason \notin {"content_changed", "file_reset"}
        /\ ret.synced =>
              /\ file_state.size = file_state.last_offset
              /\ file_state.sha256 =
                    compute_sha256(Take(src.bytes, file_state.last_offset))

====
